---- MODULE Spec2Model ----
(***************************************************************************)
(* Model of the terminal emulation engine `Terminal` of                    *)
(* packages/extraterm-char-render-canvas/src/BoxDrawingCharacters.ts:      *)
(* the write scheduler (write, _processWriteChunkRealTime,                 *)
(* _processOneWriteChunk), the byte parser (_processWriteData and the      *)
(* _processData* arms) and the screen operations they dispatch to.         *)
(*                                                                         *)
(* Characters are their UTF-16 code units (27 = ESC, 91 = '[', ...), a     *)
(* string is a sequence of code units, a cell is <<attr, ch>>, a row is a  *)
(* sequence of cells and `lines` a sequence of rows.  JavaScript arrays    *)
(* are 0-based: index i of the source is element i + 1 here.               *)
(***************************************************************************)
EXTENDS Integers, Sequences, FiniteSets, TLC

(***************************************************************************)
(* Bounds of the model.                                                    *)
(***************************************************************************)
\* columns of the engine at construction (the source default is 80)
Cols == 2
\* rows of the engine at construction (the source default is 24)
Rows == 2
\* the scrollback option (the source default is 1000)
Scrollback == 1
\* number of operations (writes, resizes, ...) in one behaviour
MaxSteps == 4
\* number of write() calls in one behaviour of the scheduler
MaxWrites == 3

(***************************************************************************)
(* Program constants.                                                      *)
(***************************************************************************)
STATE_NORMAL == 0
STATE_ESCAPE == 1
STATE_CSI == 2
STATE_OSC == 3
STATE_CHARSET == 4
STATE_DCS == 5
STATE_IGNORE == 6
STATE_APPLICATION_START == 7
STATE_APPLICATION_END == 8
STATE_DEC_HASH == 9
MAX_PROCESS_WRITE_SIZE == 4096
REFRESH_START_NULL == 100000000
REFRESH_END_NULL == -100000000
REFRESH_DELAY == 100

\* '\x1b'
ESC == 27
\* '\x07'
BEL == 7

(***************************************************************************)
(* JavaScript values.                                                      *)
(***************************************************************************)
\* a parameter is a number or a string (OSC, DCS and application-mode text)
Num(n) == [isStr |-> FALSE, num |-> n, str |-> <<>>]
Str(s) == [isStr |-> TRUE, num |-> 0, str |-> s]
\* `undefined` as a parameter (params[1] of a one-parameter sequence)
Undef == [isStr |-> FALSE, num |-> -1, str |-> <<-1>>]
\* JavaScript truthiness of a parameter: 0, '' and undefined are falsy
Truthy(p) == IF p = Undef THEN FALSE ELSE IF p.isStr THEN p.str # <<>> ELSE p.num # 0
\* params[i], `undefined` past the end
Param(params, i) == IF i + 1 <= Len(params) THEN params[i + 1] ELSE Undef

Min(a, b) == IF a < b THEN a ELSE b
Max(a, b) == IF a > b THEN a ELSE b

\* an array element that was never assigned (a hole, `undefined`)
Hole == <<-2, -2>>

RECURSIVE Holes(_)
Holes(n) == IF n <= 0 THEN <<>> ELSE <<Hole>> \o Holes(n - 1)

\* Array.prototype.splice(start, deleteCount, ...items) on a sequence
Splice(s, start, deleteCount, items) ==
  LET len == Len(s)
      st == IF start < 0 THEN Max(len + start, 0) ELSE Min(start, len)
      dc == Max(0, Min(deleteCount, len - st))
  IN SubSeq(s, 1, st) \o items \o SubSeq(s, st + dc + 1, len)

\* Array.prototype.slice(begin) with begin <= 0: the last -begin elements
\* (slice(-0) is slice(0), the whole array)
SliceFromEnd(s, begin) ==
  IF begin = 0 THEN s
  ELSE SubSeq(s, Max(Len(s) + begin, 0) + 1, Len(s))

\* a[i] = v, which extends the array with holes when i is past its end
SetAt(a, i, v) ==
  IF i + 1 <= Len(a) THEN [a EXCEPT ![i + 1] = v]
  ELSE a \o Holes(i - Len(a)) \o <<v>>

\* a[i], `undefined` outside the array
GetAt(a, i) == IF i >= 0 /\ i + 1 <= Len(a) THEN a[i + 1] ELSE Hole

RECURSIVE Repeat(_, _)
Repeat(v, n) == IF n <= 0 THEN <<>> ELSE <<v>> \o Repeat(v, n - 1)

\* decimal digits of a number, as '' + n produces them
RECURSIVE Digits(_)
Digits(n) == IF n < 10 THEN <<48 + n>> ELSE Digits(n \div 10) \o <<48 + (n % 10)>>

(***************************************************************************)
(* Cells, rows and the dirty range.                                        *)
(***************************************************************************)
\* (0 << 18) | (257 << 9) | (256 << 0)
DefAttr == 257 * 512 + 256

\* eraseAttr() that returns the whole current style
eraseAttrCurrent(t) == t.curAttr

\* (defAttr & ~0x1ff) | (curAttr & 0x1ff)
eraseAttr(t) == (t.defAttr - (t.defAttr % 512)) + (t.curAttr % 512)

\* a row of `cols` blank cells, in the erase style when cur is set
blankLine(t, cur) ==
  Repeat(<<IF cur THEN eraseAttr(t) ELSE t.defAttr, 32>>, t.cols)

\* the buffer after _getRow(row): blank rows are appended until row exists
GetRowLines(t, row) ==
  IF row >= Len(t.lines)
  THEN t.lines \o Repeat(blankLine(t, FALSE), row + 1 - Len(t.lines))
  ELSE t.lines

updateRange(t, y) ==
  [t EXCEPT !.refreshStart = IF y < @ THEN y ELSE @,
            !.refreshEnd = IF y > @ THEN y ELSE @]

maxRange(t) == [t EXCEPT !.refreshStart = 0, !.refreshEnd = t.rows - 1]

(***************************************************************************)
(* Tab stops: `tabs` is the set of columns i with tabs[i] === true.        *)
(***************************************************************************)
RECURSIVE PrevStopLoop(_, _)
PrevStopLoop(tabs, x) ==
  IF (x - 1) \notin tabs /\ x - 1 > 0 THEN PrevStopLoop(tabs, x - 1) ELSE x - 1

\* prevStop that runs to the left margin whatever the stops
prevStopToMargin(t, x) == 0

prevStop(t, x) ==
  LET r == PrevStopLoop(t.tabs, x)
  IN IF r >= t.cols THEN t.cols - 1 ELSE IF r < 0 THEN 0 ELSE r

RECURSIVE NextStopLoop(_, _, _)
NextStopLoop(tabs, cols, x) ==
  IF (x + 1) \notin tabs /\ x + 1 < cols THEN NextStopLoop(tabs, cols, x + 1) ELSE x + 1

nextStop(t, x) ==
  LET r == NextStopLoop(t.tabs, t.cols, x)
  IN IF r >= t.cols THEN t.cols - 1 ELSE IF r < 0 THEN 0 ELSE r

\* the columns i, i + 8, ... below cols
StopsFrom(i, cols) == {c \in i..(cols - 1) : (c - i) % 8 = 0}

\* setupStops() without an argument
setupStopsAll(t) == [t EXCEPT !.tabs = StopsFrom(0, t.cols)]

\* setupStops(i)
setupStopsAt(t, i) ==
  LET from == IF i \notin t.tabs THEN prevStop(t, i) ELSE i
  IN [t EXCEPT !.tabs = @ \cup StopsFrom(from, t.cols)]

(***************************************************************************)
(* refresh(start, end): the renderer reads rows start..end of the view;    *)
(* _getRow appends the rows it misses, and placing the cursor reads        *)
(* line[x][1], which throws when that cell was never assigned.             *)
(***************************************************************************)
refresh(t, start, end0) ==
  LET end == IF ~t.physicalScroll /\ end0 >= Len(t.lines) THEN Len(t.lines) - 1 ELSE end0
      cursorRow == t.y >= start /\ t.y <= end /\ t.cursorState /\ t.ydisp = t.ybase
                   /\ ~t.cursorHidden /\ t.x < t.cols
      upto == IF cursorRow THEN t.y ELSE end
      grown == IF start <= upto THEN GetRowLines(t, upto + t.ydisp) ELSE t.lines
      fails == cursorRow /\ GetAt(grown[t.y + t.ydisp + 1], t.x) = Hole
  IN IF fails THEN [t EXCEPT !.lines = grown, !.threw = TRUE]
     ELSE [t EXCEPT !.lines = IF start <= end THEN GetRowLines(t, end + t.ydisp) ELSE @]

showCursor(t) ==
  IF ~t.cursorState THEN refresh([t EXCEPT !.cursorState = TRUE], t.y, t.y) ELSE t

\* _refreshFrame(), the body of the refresh timer
refreshFrame(t) ==
  LET r == refresh(t, t.refreshStart, t.refreshEnd)
  IN IF r.threw THEN r
     ELSE [r EXCEPT !.scrollbackBuffer = <<>>,
                    !.refreshStart = REFRESH_START_NULL,
                    !.refreshEnd = REFRESH_END_NULL]

(***************************************************************************)
(* Construction and reset.                                                 *)
(***************************************************************************)
NoSavedState == [saved |-> FALSE, lines |-> <<>>, cols |-> 0, rows |-> 0, ybase |-> 0,
                 ydisp |-> 0, x |-> 0, y |-> 0, scrollTop |-> 0, scrollBottom |-> 0,
                 tabs |-> {}]

\* the charset tables: null (US and the national sets) or SCLD
CharsetNull == "null"
CharsetSCLD == "SCLD"

resetVariables(t) ==
  LET r == [t EXCEPT !.ybase = 0, !.ydisp = 0, !.x = 0, !.y = 0, !.oldy = 0,
                     !.cursorState = FALSE, !.cursorHidden = FALSE, !.hasFocus = FALSE,
                     !.queue = <<>>, !.scrollTop = 0, !.scrollBottom = t.rows - 1,
                     !.applicationKeypad = FALSE, !.applicationCursor = FALSE,
                     !.originMode = FALSE, !.insertMode = FALSE, !.wraparoundMode = FALSE,
                     !.normal = NoSavedState,
                     !.charset = CharsetNull, !.gcharset = -1, !.glevel = 0,
                     !.charsets = <<CharsetNull>>,
                     !.curAttr = t.defAttr,
                     !.params = <<>>, !.currentParam = Num(0), !.prefix = <<>>,
                     !.postfix = <<>>]
      l == [r EXCEPT !.lines = IF ~t.physicalScroll
                                THEN Repeat(blankLine(r, FALSE), t.rows) ELSE <<>>]
  IN setupStopsAll(l)

\* the fields as the class initialisers and the constructor leave them,
\* before _resetVariables runs
Constructed(cols, rows, scrollback, physicalScroll) ==
  [cols |-> cols, rows |-> rows, scrollback |-> scrollback,
   physicalScroll |-> physicalScroll,
   state |-> STATE_NORMAL,
   refreshStart |-> REFRESH_START_NULL, refreshEnd |-> REFRESH_END_NULL,
   ybase |-> 0, ydisp |-> 0, x |-> 0, y |-> 0, savedX |-> 0, savedY |-> 0, oldy |-> 0,
   cursorState |-> FALSE, cursorHidden |-> FALSE, hasFocus |-> FALSE,
   queue |-> <<>>, sendTimers |-> 0,
   scrollTop |-> 0, scrollBottom |-> 23,
   applicationKeypad |-> FALSE, applicationCursor |-> FALSE, originMode |-> FALSE,
   insertMode |-> FALSE, wraparoundMode |-> FALSE, normal |-> NoSavedState,
   charset |-> CharsetNull, gcharset |-> -1, glevel |-> 0, charsets |-> <<CharsetNull>>,
   defAttr |-> DefAttr, curAttr |-> 0,
   params |-> <<>>, currentParam |-> Num(0), prefix |-> <<>>, postfix |-> <<>>,
   lines |-> <<>>, scrollbackBuffer |-> <<>>, tabs |-> {},
   sendFocus |-> FALSE, utfMouse |-> FALSE, urxvtMouse |-> FALSE, sgrMouse |-> FALSE,
   vt200Mouse |-> FALSE, normalMouse |-> FALSE, x10Mouse |-> FALSE, mouseEvents |-> FALSE,
   savedCols |-> 0, title |-> <<>>,
   applicationModeCookie |-> Undef,
   pressed |-> 32, upListeners |-> 0, moveListeners |-> 0,
   out |-> <<>>, threw |-> FALSE]

\* new Terminal(options) with the given geometry
Fresh(cols, rows, scrollback) ==
  resetVariables(Constructed(cols, rows, scrollback, FALSE))

\* reset(): ESC c and the alt-screen switch
reset(t) ==
  LET r == resetVariables(t)
  IN refresh(r, 0, r.rows - 1)

(***************************************************************************)
(* Scrolling.                                                              *)
(***************************************************************************)
\* scroll() that keeps the oldest row when the scrollback is full
scrollNoEviction(t) ==
  LET full == ~t.physicalScroll /\ t.ybase + 1 > t.scrollback
      yb1 == IF t.physicalScroll \/ full THEN t.ybase ELSE t.ybase + 1
      row == (yb1 + t.rows - 1) - (t.rows - 1 - t.scrollBottom)
      l2 == Splice(t.lines, row, 0, <<blankLine(t, FALSE)>>)
      yb2 == IF t.scrollTop # 0 /\ yb1 # 0 THEN yb1 - 1 ELSE yb1
      l3 == IF t.scrollTop # 0 THEN Splice(l2, yb2 + t.scrollTop, 1, <<>>) ELSE l2
      r == [t EXCEPT !.ybase = yb2, !.ydisp = yb2, !.lines = l3]
  IN updateRange(updateRange(r, t.scrollTop), t.scrollBottom)

scroll(t) ==
  LET full == ~t.physicalScroll /\ t.ybase + 1 > t.scrollback
      yb1 == IF t.physicalScroll \/ full THEN t.ybase ELSE t.ybase + 1
      l1 == IF t.physicalScroll \/ full
            THEN SliceFromEnd(t.lines, 1 - (yb1 + t.rows)) ELSE t.lines
      sb == IF t.physicalScroll
            THEN Append(t.scrollbackBuffer, GetAt(t.lines, 0)) ELSE t.scrollbackBuffer
      row == (yb1 + t.rows - 1) - (t.rows - 1 - t.scrollBottom)
      l2 == Splice(l1, row, 0, <<blankLine(t, FALSE)>>)
      yb2 == IF t.scrollTop # 0 /\ yb1 # 0 THEN yb1 - 1 ELSE yb1
      l3 == IF t.scrollTop # 0 THEN Splice(l2, yb2 + t.scrollTop, 1, <<>>) ELSE l2
      r == [t EXCEPT !.ybase = yb2, !.ydisp = yb2, !.lines = l3, !.scrollbackBuffer = sb]
  IN updateRange(updateRange(r, t.scrollTop), t.scrollBottom)

\* scrollDisp without the two clamps of ydisp
scrollDispUnclamped(t, disp) ==
  refresh([t EXCEPT !.ydisp = t.ydisp + disp], 0, t.rows - 1)

scrollDisp(t, disp) ==
  LET d == t.ydisp + disp
      r == [t EXCEPT !.ydisp = IF d > t.ybase THEN t.ybase ELSE IF d < 0 THEN 0 ELSE d]
  IN refresh(r, 0, r.rows - 1)

(***************************************************************************)
(* resize(newcols, newrows).                                               *)
(***************************************************************************)
\* a row padded with default blanks, or cut, to newcols cells
ResizeLine(t, line, newcols) ==
  IF t.cols < newcols
  THEN line \o Repeat(<<t.defAttr, 32>>, newcols - Len(line))
  ELSE IF t.cols > newcols THEN SubSeq(line, 1, Min(Len(line), newcols))
  ELSE line

resize(t, newcols0, newrows0) ==
  LET newcols == Max(newcols0, 1)
      newrows == Max(newrows0, 1)
      l1 == [i \in 1..Len(t.lines) |-> ResizeLine(t, t.lines[i], newcols)]
      t1 == [setupStopsAt(t, t.cols) EXCEPT !.lines = l1, !.cols = newcols]
      l2 == IF t.rows < newrows
            THEN IF ~t.physicalScroll
                 THEN l1 \o Repeat(blankLine(t1, FALSE),
                                   Min(newrows - t.rows, newrows + t.ybase - Len(l1)))
                 ELSE l1
            ELSE IF t.rows > newrows
                 THEN SubSeq(l1, 1, Min(Len(l1), newrows + t.ybase))
                 ELSE l1
      t2 == [t1 EXCEPT !.lines = l2, !.rows = newrows,
                       !.y = IF @ >= newrows THEN newrows - 1 ELSE @,
                       !.x = IF @ >= newcols THEN newcols - 1 ELSE @,
                       !.scrollTop = 0, !.scrollBottom = newrows - 1]
      t3 == refresh(t2, 0, IF t.physicalScroll THEN Len(l2) - 1 ELSE newrows - 1)
  IN IF t3.threw THEN t3 ELSE [t3 EXCEPT !.normal = NoSavedState]

(***************************************************************************)
(* ESC operations.                                                         *)
(***************************************************************************)
index(t) ==
  LET r == IF t.y + 1 > t.scrollBottom THEN scroll(t) ELSE [t EXCEPT !.y = t.y + 1]
  IN [r EXCEPT !.state = STATE_NORMAL]

reverseIndex(t) ==
  LET l1 == Splice(t.lines, t.y + t.ybase, 0, <<blankLine(t, TRUE)>>)
      j == t.rows - 1 - t.scrollBottom
      l2 == Splice(l1, t.rows - 1 + t.ybase - j + 1, 1, <<>>)
      r == IF t.y - 1 < t.scrollTop
           THEN updateRange(updateRange([t EXCEPT !.lines = l2], t.scrollTop),
                            t.scrollBottom)
           ELSE [t EXCEPT !.y = t.y - 1]
  IN [r EXCEPT !.state = STATE_NORMAL]

tabSet(t) == [t EXCEPT !.tabs = @ \cup {t.x}, !.state = STATE_NORMAL]

setgLevel(t, g) ==
  [t EXCEPT !.glevel = g,
            !.charset = IF g + 1 <= Len(t.charsets) THEN t.charsets[g + 1]
                        ELSE "undefined"]

\* charsets[g] = charset: the array grows with holes (undefined) up to g
setgCharset(t, g, charset) ==
  LET cs == IF g + 1 <= Len(t.charsets) THEN [t.charsets EXCEPT ![g + 1] = charset]
            ELSE t.charsets \o Repeat("undefined", g - Len(t.charsets)) \o <<charset>>
  IN [t EXCEPT !.charsets = cs, !.charset = IF t.glevel = g THEN charset ELSE @]

\* send(data): the reply is queued; a timer is set when the queue was empty
send(t, data) ==
  [t EXCEPT !.sendTimers = IF t.queue = <<>> THEN @ + 1 ELSE @,
            !.queue = @ \o data]

\* emit(type, ...args), as the subscribers observe it; args is the list of
\* the strings passed
emit(t, type, arg) == [t EXCEPT !.out = Append(@, <<type, arg>>)]

(***************************************************************************)
(* CSI operations.  P0 is params[0] with the source's `if (param < 1)      *)
(* param = 1`, P0or1 is `params[0] || 1`.                                  *)
(***************************************************************************)
P0(t) == IF t.params[1].num < 1 THEN 1 ELSE t.params[1].num
P0or1(t) == IF t.params[1].num = 0 THEN 1 ELSE t.params[1].num

cursorUp(t) == [t EXCEPT !.y = IF @ - P0(t) < 0 THEN 0 ELSE @ - P0(t)]
cursorDown(t) == [t EXCEPT !.y = IF @ + P0(t) >= t.rows THEN t.rows - 1 ELSE @ + P0(t)]
cursorForward(t) == [t EXCEPT !.x = IF @ + P0(t) >= t.cols THEN t.cols - 1 ELSE @ + P0(t)]
cursorBackward(t) == [t EXCEPT !.x = IF @ - P0(t) < 0 THEN 0 ELSE @ - P0(t)]

cursorPos(t) ==
  LET row == t.params[1].num - 1
      col == IF Len(t.params) >= 2 THEN t.params[2].num - 1 ELSE 0
  IN [t EXCEPT !.x = IF col < 0 THEN 0 ELSE IF col >= t.cols THEN t.cols - 1 ELSE col,
               !.y = IF row < 0 THEN 0 ELSE IF row >= t.rows THEN t.rows - 1 ELSE row]

cursorNextLine(t) == [cursorDown(t) EXCEPT !.x = 0]
cursorPrecedingLine(t) == [cursorUp(t) EXCEPT !.x = 0]
cursorCharAbsolute(t) == [t EXCEPT !.x = P0(t) - 1]
charPosAbsolute(t) == [t EXCEPT !.x = IF P0(t) - 1 >= t.cols THEN t.cols - 1 ELSE P0(t) - 1]
HPositionRelative(t) == cursorForward(t)
linePosAbsolute(t) == [t EXCEPT !.y = IF P0(t) - 1 >= t.rows THEN t.rows - 1 ELSE P0(t) - 1]
VPositionRelative(t) == cursorDown(t)

\* line[from] = ... = line[to] = cell
RECURSIVE FillCells(_, _, _, _)
FillCells(line, from, to, cell) ==
  IF from > to THEN line ELSE FillCells(SetAt(line, from, cell), from + 1, to, cell)

fillRight(t, x, y, ch) ==
  LET l == GetRowLines(t, t.ybase + y)
      line == FillCells(l[t.ybase + y + 1], x, t.cols - 1, <<eraseAttr(t), ch>>)
  IN updateRange([t EXCEPT !.lines = [l EXCEPT ![t.ybase + y + 1] = line]], y)

eraseRight(t, x, y) == fillRight(t, x, y, 32)
eraseLine(t, y) == eraseRight(t, 0, y)

eraseLeft(t, x, y) ==
  LET l == GetRowLines(t, t.ybase + y)
      line == FillCells(l[t.ybase + y + 1], 0, x, <<eraseAttr(t), 32>>)
  IN updateRange([t EXCEPT !.lines = [l EXCEPT ![t.ybase + y + 1] = line]], y)

\* eraseLine(from), eraseLine(from + step), ... while the row is in lo..hi
RECURSIVE EraseLines(_, _, _, _, _)
EraseLines(t, j, step, lo, hi) ==
  IF j < lo \/ j > hi THEN t ELSE EraseLines(eraseLine(t, j), j + step, step, lo, hi)

fillScreen(t, ch) ==
  LET F[j \in 0..t.rows] == IF j = t.rows THEN t ELSE fillRight(F[j + 1], 0, j, ch)
  IN F[0]

eraseInDisplay(t) ==
  CASE t.params[1] = Num(0) ->
         EraseLines(eraseRight(t, t.x, t.y), t.y + 1, 1, 0, t.rows - 1)
    [] t.params[1] = Num(1) ->
         EraseLines(eraseLeft(t, t.x, t.y), t.y - 1, -1, 0, t.y)
    [] t.params[1] = Num(2) -> EraseLines(t, t.rows - 1, -1, 0, t.rows - 1)
    [] OTHER -> t

eraseInLine(t) ==
  CASE t.params[1] = Num(0) -> eraseRight(t, t.x, t.y)
    [] t.params[1] = Num(1) -> eraseLeft(t, t.x, t.y)
    [] t.params[1] = Num(2) -> eraseLine(t, t.y)
    [] OTHER -> t

insertChars(t) ==
  LET n == Min(P0(t), Max(t.cols - t.x, 0))
      row == t.y + t.ybase
      l == IF n > 0 THEN GetRowLines(t, row) ELSE t.lines
      Ins[k \in 0..n] ==
        IF k = 0 THEN l[row + 1]
        ELSE LET s == Splice(Ins[k - 1], t.x + k - 1, 0, <<<<eraseAttr(t), 32>>>>)
             IN SubSeq(s, 1, Len(s) - 1)
  IN IF n > 0 THEN [t EXCEPT !.lines = [l EXCEPT ![row + 1] = Ins[n]]] ELSE t

\* lines[row] is read without _getRow: a missing row throws
deleteChars(t) ==
  LET row == t.y + t.ybase
      Del[k \in 0..P0(t)] ==
        IF k = 0 THEN t.lines[row + 1]
        ELSE Append(Splice(Del[k - 1], t.x, 1, <<>>), <<eraseAttr(t), 32>>)
  IN IF row + 1 > Len(t.lines) THEN [t EXCEPT !.threw = TRUE]
     ELSE [t EXCEPT !.lines[row + 1] = Del[P0(t)]]

eraseChars(t) ==
  LET row == t.y + t.ybase
      l == GetRowLines(t, row)
      line == FillCells(l[row + 1], t.x, Min(t.x + P0(t), t.cols) - 1, <<eraseAttr(t), 32>>)
  IN [t EXCEPT !.lines = [l EXCEPT ![row + 1] = line]]

insertLines(t) ==
  LET row == t.y + t.ybase
      j == t.rows - 1 + t.ybase - (t.rows - 1 - t.scrollBottom) + 1
      Ins[k \in 0..P0(t)] ==
        IF k = 0 THEN t
        ELSE LET l == GetRowLines(Ins[k - 1], row)
             IN [Ins[k - 1] EXCEPT !.lines =
                   Splice(Splice(l, row, 0, <<blankLine(t, TRUE)>>), j, 1, <<>>)]
  IN updateRange(updateRange(Ins[P0(t)], t.y), t.scrollBottom)

deleteLines(t) ==
  LET row == t.y + t.ybase
      j == t.rows - 1 + t.ybase - (t.rows - 1 - t.scrollBottom)
      Del[k \in 0..P0(t)] ==
        IF k = 0 THEN t
        ELSE LET l == GetRowLines(Del[k - 1], j + 1)
             IN [Del[k - 1] EXCEPT !.lines =
                   Splice(Splice(l, j + 1, 0, <<blankLine(t, TRUE)>>), row, 1, <<>>)]
  IN updateRange(updateRange(Del[P0(t)], t.y), t.scrollBottom)

setScrollRegion(t) ==
  IF t.prefix # <<>> THEN t
  ELSE [t EXCEPT !.scrollTop = P0or1(t) - 1,
                 !.scrollBottom = (IF Truthy(Param(t.params, 1))
                                   THEN t.params[2].num ELSE t.rows) - 1,
                 !.x = 0, !.y = 0]

\* saveCursor that keeps the column only
saveCursorColumnOnly(t) == [t EXCEPT !.savedX = t.x]

saveCursor(t) == [t EXCEPT !.savedX = t.x, !.savedY = t.y]
restoreCursor(t) == [t EXCEPT !.x = t.savedX, !.y = t.savedY]

cursorForwardTab(t) ==
  LET F[k \in 0..P0or1(t)] == IF k = 0 THEN t.x ELSE nextStop(t, F[k - 1])
  IN [t EXCEPT !.x = F[P0or1(t)]]

cursorBackwardTab(t) ==
  LET F[k \in 0..P0or1(t)] == IF k = 0 THEN t.x ELSE prevStop(t, F[k - 1])
  IN [t EXCEPT !.x = F[P0or1(t)]]

scrollUp(t) ==
  LET F[k \in 0..P0or1(t)] ==
        IF k = 0 THEN t.lines
        ELSE Splice(Splice(F[k - 1], t.ybase + t.scrollTop, 1, <<>>),
                    t.ybase + t.scrollBottom, 0, <<blankLine(t, FALSE)>>)
  IN updateRange(updateRange([t EXCEPT !.lines = F[P0or1(t)]], t.scrollTop),
                 t.scrollBottom)

scrollDown(t) ==
  LET F[k \in 0..P0or1(t)] ==
        IF k = 0 THEN t.lines
        ELSE Splice(Splice(F[k - 1], t.ybase + t.scrollBottom, 1, <<>>),
                    t.ybase + t.scrollTop, 0, <<blankLine(t, FALSE)>>)
  IN updateRange(updateRange([t EXCEPT !.lines = F[P0or1(t)]], t.scrollTop),
                 t.scrollBottom)

repeatPrecedingCharacter(t) ==
  LET row == t.ybase + t.y
      l == GetRowLines(t, row)
      prev == GetAt(l[row + 1], t.x - 1)
      ch == IF prev = Hole THEN <<t.defAttr, 32>> ELSE prev
      line == FillCells(l[row + 1], t.x, t.x + P0or1(t) - 1, ch)
  IN [t EXCEPT !.lines = [l EXCEPT ![row + 1] = line], !.x = t.x + P0or1(t)]

tabClear(t) ==
  IF t.params[1].num <= 0 THEN [t EXCEPT !.tabs = @ \ {t.x}]
  ELSE IF t.params[1].num = 3 THEN [t EXCEPT !.tabs = {}]
  ELSE t

softReset(t) ==
  [t EXCEPT !.cursorHidden = FALSE, !.insertMode = FALSE, !.originMode = FALSE,
            !.wraparoundMode = FALSE, !.applicationKeypad = FALSE,
            !.applicationCursor = FALSE, !.scrollTop = 0, !.scrollBottom = t.rows - 1,
            !.curAttr = t.defAttr, !.x = 0, !.y = 0, !.charset = CharsetNull,
            !.glevel = 0, !.charsets = <<CharsetNull>>]

\* the replies '\x1b[0n', '\x1b[<y+1>;<x+1>R' and '\x1b[?<y+1>;<x+1>R'
deviceStatus(t) ==
  IF t.prefix = <<>>
  THEN CASE t.params[1] = Num(5) -> send(t, <<ESC, 91, 48, 110>>)
         [] t.params[1] = Num(6) ->
              send(t, <<ESC, 91>> \o Digits(t.y + 1) \o <<59>> \o Digits(t.x + 1) \o <<82>>)
         [] OTHER -> t
  ELSE IF t.prefix = <<63>> /\ t.params[1] = Num(6)
  THEN send(t, <<ESC, 91, 63>> \o Digits(t.y + 1) \o <<59>> \o Digits(t.x + 1) \o <<82>>)
  ELSE t

(***************************************************************************)
(* SM / RM and the alternate screen.                                       *)
(***************************************************************************)
\* the SavedState that `?47h`, `?1047h` and `?1049h` keep in `normal`
SavedState(t) ==
  [saved |-> TRUE, lines |-> t.lines, cols |-> t.cols, rows |-> t.rows,
   ybase |-> t.ybase, ydisp |-> t.ydisp, x |-> t.x, y |-> t.y,
   scrollTop |-> t.scrollTop, scrollBottom |-> t.scrollBottom, tabs |-> t.tabs]

\* the case without its test of `normal`: every enter sequence saves
enterAltScreenAlways(t) ==
  LET r == reset(t)
      k == [r EXCEPT !.charset = t.charset, !.glevel = t.glevel,
                     !.charsets = t.charsets, !.normal = SavedState(t)]
  IN IF r.threw THEN r ELSE showCursor(k)

\* case 1049 / 47 / 1047 of setMode
enterAltScreen(t) ==
  IF t.normal.saved THEN t
  ELSE LET r == reset(t)
           k == [r EXCEPT !.charset = t.charset, !.glevel = t.glevel,
                          !.charsets = t.charsets, !.normal = SavedState(t)]
       IN IF r.threw THEN r ELSE showCursor(k)

\* case 1049 / 47 / 1047 of resetMode
leaveAltScreen(t) ==
  IF ~t.normal.saved THEN t
  ELSE LET n == t.normal
           r == [t EXCEPT !.lines = n.lines, !.cols = n.cols, !.rows = n.rows,
                          !.ybase = n.ybase, !.ydisp = n.ydisp, !.x = n.x, !.y = n.y,
                          !.scrollTop = n.scrollTop, !.scrollBottom = n.scrollBottom,
                          !.tabs = n.tabs, !.normal = NoSavedState]
           z == resize(r, t.cols, t.rows)
           f == IF z.threw THEN z ELSE refresh(z, 0, z.rows - 1)
       IN IF f.threw THEN f ELSE showCursor(f)

IsMouseMode(p) == p \in {9, 1000, 1002, 1003}
IsAltMode(p) == p \in {1049, 47, 1047}

\* setMode(params) with a number
setMode1(t, p) ==
  IF t.prefix = <<>>
  THEN IF p = 4 THEN [t EXCEPT !.insertMode = TRUE] ELSE t
  ELSE IF t.prefix # <<63>> THEN t
  ELSE CASE p = 1 -> [t EXCEPT !.applicationCursor = TRUE]
         [] p = 2 -> setgCharset(setgCharset(setgCharset(setgCharset(t,
                       0, CharsetNull), 1, CharsetNull), 2, CharsetNull), 3, CharsetNull)
         [] p = 3 -> resize([t EXCEPT !.savedCols = t.cols], 132, t.rows)
         [] p = 6 -> [t EXCEPT !.originMode = TRUE]
         [] p = 7 -> [t EXCEPT !.wraparoundMode = TRUE]
         [] p = 66 -> [t EXCEPT !.applicationKeypad = TRUE]
         [] IsMouseMode(p) -> [t EXCEPT !.x10Mouse = (p = 9), !.vt200Mouse = (p = 1000),
                                        !.normalMouse = (p > 1000), !.mouseEvents = TRUE]
         [] p = 1004 -> [t EXCEPT !.sendFocus = TRUE]
         [] p = 1005 -> [t EXCEPT !.utfMouse = TRUE]
         [] p = 1006 -> [t EXCEPT !.sgrMouse = TRUE]
         [] p = 1015 -> [t EXCEPT !.urxvtMouse = TRUE]
         [] p = 25 -> [t EXCEPT !.cursorHidden = FALSE]
         [] IsAltMode(p) -> enterAltScreen(t)
         [] OTHER -> t

\* resetMode(params) with a number
resetMode1(t, p) ==
  IF t.prefix = <<>>
  THEN IF p = 4 THEN [t EXCEPT !.insertMode = FALSE] ELSE t
  ELSE IF t.prefix # <<63>> THEN t
  ELSE CASE p = 1 -> [t EXCEPT !.applicationCursor = FALSE]
         [] p = 3 -> LET f == [fillScreen(t, 32) EXCEPT !.x = 0, !.y = 0]
                     IN IF f.cols = 132 /\ f.savedCols # 0
                        THEN resize(f, f.savedCols, f.rows) ELSE f
         [] p = 6 -> [t EXCEPT !.originMode = FALSE]
         [] p = 7 -> [t EXCEPT !.wraparoundMode = FALSE]
         [] p = 66 -> [t EXCEPT !.applicationKeypad = FALSE]
         [] IsMouseMode(p) -> [t EXCEPT !.x10Mouse = FALSE, !.vt200Mouse = FALSE,
                                        !.normalMouse = FALSE, !.mouseEvents = FALSE]
         [] p = 1004 -> [t EXCEPT !.sendFocus = FALSE]
         [] p = 1005 -> [t EXCEPT !.utfMouse = FALSE]
         [] p = 1006 -> [t EXCEPT !.sgrMouse = FALSE]
         [] p = 1015 -> [t EXCEPT !.urxvtMouse = FALSE]
         [] p = 25 -> [t EXCEPT !.cursorHidden = TRUE]
         [] IsAltMode(p) -> leaveAltScreen(t)
         [] OTHER -> t

\* setMode(params) with the parameter list: each entry in order (an
\* exception ends the loop)
setMode(t) ==
  LET F[k \in 0..Len(t.params)] ==
        IF k = 0 THEN t
        ELSE IF F[k - 1].threw THEN F[k - 1]
        ELSE setMode1(F[k - 1], t.params[k].num)
  IN F[Len(t.params)]

resetMode(t) ==
  LET F[k \in 0..Len(t.params)] ==
        IF k = 0 THEN t
        ELSE IF F[k - 1].threw THEN F[k - 1]
        ELSE resetMode1(F[k - 1], t.params[k].num)
  IN F[Len(t.params)]

\* HVPosition with both parameters present
HVPosition(t) ==
  LET r == Max(t.params[1].num, 1) - 1
      c == Max(t.params[2].num, 1) - 1
  IN [t EXCEPT !.y = IF r >= t.rows THEN t.rows - 1 ELSE r,
               !.x = IF c >= t.cols THEN t.cols - 1 ELSE c]

\* sendDeviceAttributes with termName 'xterm', the constructor default
sendDeviceAttributes(t) ==
  IF t.params[1].num > 0 THEN t
  ELSE IF t.prefix = <<>> THEN send(t, <<ESC, 91, 63, 49, 59, 50, 99>>)
  ELSE IF t.prefix = <<62>>
  THEN send(t, <<ESC, 91, 62, 48, 59, 50, 55, 54, 59, 48, 99>>)
  ELSE t

(***************************************************************************)
(* The parser.  An arm takes the engine, the byte and the loop index i     *)
(* and returns the engine and the index the loop continues from.           *)
(***************************************************************************)
\* currentParam += ch
AddCh(p, ch) ==
  IF p.isStr THEN Str(Append(p.str, ch)) ELSE Str(Append(Digits(p.num), ch))

IsDigit(ch) == ch >= 48 /\ ch <= 57

\* Terminal.charsets.SCLD, for the keys '`' (96) to '~' (126)
SCLD == <<9670, 9618, 9, 12, 13, 10, 176, 177, 9252, 11, 9496, 9488, 9484, 9492,
          9532, 9146, 9147, 9472, 9148, 9149, 9500, 9508, 9524, 9516, 9474, 8804,
          8805, 960, 8800, 163, 183>>

isWide(ch) ==
  IF ch <= 65280 THEN FALSE
  ELSE \/ ch >= 65281 /\ ch <= 65470
       \/ ch >= 65474 /\ ch <= 65479
       \/ ch >= 65482 /\ ch <= 65487
       \/ ch >= 65490 /\ ch <= 65495
       \/ ch >= 65498 /\ ch <= 65500
       \/ ch >= 65504 /\ ch <= 65510
       \/ ch >= 65512 /\ ch <= 65518

(***************************************************************************)
(* SGR: the palette, matchColor and charAttributes.                        *)
(***************************************************************************)
\* Terminal.tangoColors, colours 0-15, as [r, g, b]
tangoColors ==
  << <<46, 52, 54>>, <<204, 0, 0>>, <<78, 154, 6>>, <<196, 160, 0>>,
     <<52, 101, 164>>, <<117, 80, 123>>, <<6, 152, 154>>, <<211, 215, 207>>,
     <<85, 87, 83>>, <<239, 41, 41>>, <<138, 226, 52>>, <<252, 233, 79>>,
     <<114, 159, 207>>, <<173, 127, 168>>, <<52, 226, 226>>, <<238, 238, 236>> >>

\* the levels of the 6x6x6 colour cube
CubeLevels == <<0, 95, 135, 175, 215, 255>>

\* Terminal.vcolors: colours 0-15, the cube 16-231 and the greys 232-255
vcolors ==
  [n \in 1..256 |->
     IF n <= 16 THEN tangoColors[n]
     ELSE IF n <= 232
     THEN LET i == n - 17
          IN <<CubeLevels[((i \div 36) % 6) + 1], CubeLevels[((i \div 6) % 6) + 1],
               CubeLevels[(i % 6) + 1]>>
     ELSE LET v == 8 + (n - 233) * 10 IN <<v, v, v>>]

matchColorDistance(r1, g1, b1, r2, g2, b2) ==
  (30 * (r1 - r2)) * (30 * (r1 - r2)) + (59 * (g1 - g2)) * (59 * (g1 - g2))
    + (11 * (b1 - b2)) * (11 * (b1 - b2))

\* matchColor(r1, g1, b1): the loop keeps the first index at the least
\* distance (it leaves at a distance of 0, which is then the first least
\* one); -1 when the palette is empty
matchColor(r1, g1, b1) ==
  LET Diff(i) == matchColorDistance(r1, g1, b1, vcolors[i + 1][1], vcolors[i + 1][2],
                                    vcolors[i + 1][3])
      idx == 0..(Len(vcolors) - 1)
  IN IF idx = {} THEN -1
     ELSE CHOOSE li \in idx :
            \A i \in idx : Diff(li) < Diff(i) \/ (Diff(li) = Diff(i) /\ li <= i)

\* flags |= bit and flags &= ~bit, for a bit 1, 2, 4, 8 or 16
SetBit(flags, bit) == IF (flags \div bit) % 2 = 1 THEN flags ELSE flags + bit
ClearBit(flags, bit) == IF (flags \div bit) % 2 = 1 THEN flags - bit ELSE flags

\* params[i] & 0xff, 0 for `undefined`
Byte(p) == IF p = Undef THEN 0 ELSE p.num % 256

\* <<flags, fg, bg>> of an attribute word
StyleOf(attr) == <<attr \div 262144, (attr \div 512) % 512, attr % 512>>

\* SGR 0 with the constants of an earlier revision (flags = 0, fg = bg = 0x1ff)
DefaultStyleFixed(t) == <<0, 511, 511>>

\* SGR 0 inside a list: the three parts of defAttr
DefaultStyle(t) == StyleOf(t.defAttr)

\* the number of parameters the selector at params[i] takes: 38 / 48 with
\* 2 takes five, with 5 three, any other parameter one
SgrWidth(params, i) ==
  IF params[i + 1].num \in {38, 48}
  THEN IF Param(params, i + 1) = Num(2) THEN 5
       ELSE IF Param(params, i + 1) = Num(5) THEN 3 ELSE 1
  ELSE 1

\* the for loop of charAttributes from index i, s = <<flags, fg, bg>>
RECURSIVE SgrLoop(_, _, _)
SgrLoop(t, i, s) ==
  IF i >= Len(t.params) THEN s[1] * 262144 + s[2] * 512 + s[3]
  ELSE LET p == t.params[i + 1].num
           Colour == IF Param(t.params, i + 1) = Num(2)
                     THEN LET m == matchColor(Byte(Param(t.params, i + 2)),
                                              Byte(Param(t.params, i + 3)),
                                              Byte(Param(t.params, i + 4)))
                          IN IF m = -1 THEN 511 ELSE m
                     ELSE Byte(Param(t.params, i + 2))
           n == CASE p >= 30 /\ p <= 37 -> <<s[1], p - 30, s[3]>>
                  [] p >= 40 /\ p <= 47 -> <<s[1], s[2], p - 40>>
                  [] p >= 90 /\ p <= 97 -> <<s[1], p + 8 - 90, s[3]>>
                  [] p >= 100 /\ p <= 107 -> <<s[1], s[2], p + 8 - 100>>
                  [] p = 0 -> DefaultStyle(t)
                  [] p = 1 -> <<SetBit(s[1], 1), s[2], s[3]>>
                  [] p = 4 -> <<SetBit(s[1], 2), s[2], s[3]>>
                  [] p = 5 -> <<SetBit(s[1], 4), s[2], s[3]>>
                  [] p = 7 -> <<SetBit(s[1], 8), s[2], s[3]>>
                  [] p = 8 -> <<SetBit(s[1], 16), s[2], s[3]>>
                  [] p = 22 -> <<ClearBit(s[1], 1), s[2], s[3]>>
                  [] p = 24 -> <<ClearBit(s[1], 2), s[2], s[3]>>
                  [] p = 25 -> <<ClearBit(s[1], 4), s[2], s[3]>>
                  [] p = 27 -> <<ClearBit(s[1], 8), s[2], s[3]>>
                  [] p = 28 -> <<ClearBit(s[1], 16), s[2], s[3]>>
                  [] p = 39 -> <<s[1], DefaultStyle(t)[2], s[3]>>
                  [] p = 49 -> <<s[1], s[2], DefaultStyle(t)[3]>>
                  [] p = 38 /\ SgrWidth(t.params, i) > 1 -> <<s[1], Colour, s[3]>>
                  [] p = 48 /\ SgrWidth(t.params, i) > 1 -> <<s[1], s[2], Colour>>
                  [] OTHER -> s
       IN SgrLoop(t, i + SgrWidth(t.params, i), n)

\* charAttributes(params), CSI Pm m
charAttributes(t) ==
  IF Len(t.params) = 1 /\ t.params[1] = Num(0)
  THEN [t EXCEPT !.curAttr = t.defAttr]
  ELSE [t EXCEPT !.curAttr = SgrLoop(t, 0, StyleOf(t.curAttr))]

\* the CSI final bytes and their handlers (the one-parameter form of 'f' is
\* outside the byte alphabet of this model)
CsiDispatch(t, ch) ==
  CASE ch = 65 -> cursorUp(t)
    [] ch = 66 -> cursorDown(t)
    [] ch = 67 -> cursorForward(t)
    [] ch = 68 -> cursorBackward(t)
    [] ch = 72 -> cursorPos(t)
    [] ch = 74 -> eraseInDisplay(t)
    [] ch = 75 -> eraseInLine(t)
    [] ch = 109 -> IF t.prefix = <<>> THEN charAttributes(t) ELSE t
    [] ch = 110 -> IF t.prefix = <<>> THEN deviceStatus(t) ELSE t
    [] ch = 64 -> insertChars(t)
    [] ch = 69 -> cursorNextLine(t)
    [] ch = 70 -> cursorPrecedingLine(t)
    [] ch = 71 -> cursorCharAbsolute(t)
    [] ch = 76 -> insertLines(t)
    [] ch = 77 -> deleteLines(t)
    [] ch = 80 -> deleteChars(t)
    [] ch = 88 -> eraseChars(t)
    [] ch = 96 -> charPosAbsolute(t)
    [] ch = 97 -> HPositionRelative(t)
    [] ch = 99 -> sendDeviceAttributes(t)
    [] ch = 100 -> linePosAbsolute(t)
    [] ch = 101 -> VPositionRelative(t)
    [] ch = 102 /\ Len(t.params) >= 2 -> HVPosition(t)
    [] ch = 104 -> setMode(t)
    [] ch = 108 -> resetMode(t)
    [] ch = 114 -> setScrollRegion(t)
    [] ch = 115 -> saveCursor(t)
    [] ch = 117 -> restoreCursor(t)
    [] ch = 73 -> cursorForwardTab(t)
    [] ch = 83 -> scrollUp(t)
    [] ch = 84 -> IF Len(t.params) < 2 /\ t.prefix = <<>> THEN scrollDown(t) ELSE t
    [] ch = 90 -> cursorBackwardTab(t)
    [] ch = 98 -> repeatPrecedingCharacter(t)
    [] ch = 103 -> tabClear(t)
    [] ch = 112 -> IF t.prefix = <<33>> THEN softReset(t) ELSE t
    [] OTHER -> t

processDataCSI(t, ch, i) ==
  IF ch \in {63, 62, 33} THEN [t |-> [t EXCEPT !.prefix = <<ch>>], i |-> i]
  ELSE IF IsDigit(ch)
  THEN [t |-> [t EXCEPT !.currentParam = Num(@.num * 10 + ch - 48)], i |-> i]
  ELSE IF ch \in {36, 34, 32, 39} THEN [t |-> [t EXCEPT !.postfix = <<ch>>], i |-> i]
  ELSE LET p == [t EXCEPT !.params = Append(@, t.currentParam), !.currentParam = Num(0)]
       IN IF ch = 59 THEN [t |-> p, i |-> i]
          ELSE LET Dispatched(d) ==
                     IF d.threw THEN d ELSE [d EXCEPT !.prefix = <<>>, !.postfix = <<>>]
               IN [t |-> Dispatched(CsiDispatch([p EXCEPT !.state = STATE_NORMAL], ch)),
                   i |-> i]

processDataEscape(t, ch, i) ==
  CASE ch = 91 -> [t |-> [t EXCEPT !.params = <<>>, !.currentParam = Num(0),
                                   !.state = STATE_CSI], i |-> i]
    [] ch = 93 -> [t |-> [t EXCEPT !.params = <<>>, !.currentParam = Num(0),
                                   !.state = STATE_OSC], i |-> i]
    [] ch = 38 -> [t |-> [t EXCEPT !.params = <<>>, !.currentParam = Str(<<>>),
                                   !.state = STATE_APPLICATION_START], i |-> i]
    [] ch = 80 -> [t |-> [t EXCEPT !.params = <<>>, !.currentParam = Num(0),
                                   !.state = STATE_DCS], i |-> i]
    [] ch \in {95, 94} -> [t |-> [t EXCEPT !.state = STATE_IGNORE], i |-> i]
    [] ch = 99 -> [t |-> reset(t), i |-> i]
    [] ch = 69 -> [t |-> index([t EXCEPT !.x = 0]), i |-> i]
    [] ch = 68 -> [t |-> index(t), i |-> i]
    [] ch = 77 -> [t |-> reverseIndex(t), i |-> i]
    [] ch = 37 -> [t |-> [setgCharset(setgLevel(t, 0), 0, CharsetNull)
                            EXCEPT !.state = STATE_NORMAL], i |-> i + 1]
    [] ch \in {40, 41, 42, 43, 45, 46} ->
         [t |-> [t EXCEPT !.gcharset = CASE ch = 40 -> 0 [] ch = 41 -> 1 [] ch = 42 -> 2
                                         [] ch = 43 -> 3 [] ch = 45 -> 1 [] ch = 46 -> 2,
                          !.state = STATE_CHARSET], i |-> i]
    [] ch = 47 -> [t |-> [t EXCEPT !.gcharset = 3, !.state = STATE_CHARSET], i |-> i - 1]
    [] ch \in {78, 79} -> [t |-> t, i |-> i]
    [] ch \in {110, 125} -> [t |-> setgLevel(t, 2), i |-> i]
    [] ch \in {111, 124} -> [t |-> setgLevel(t, 3), i |-> i]
    [] ch = 126 -> [t |-> setgLevel(t, 1), i |-> i]
    [] ch = 55 -> [t |-> [saveCursor(t) EXCEPT !.state = STATE_NORMAL], i |-> i]
    [] ch = 56 -> [t |-> [restoreCursor(t) EXCEPT !.state = STATE_NORMAL], i |-> i]
    [] ch = 35 -> [t |-> [t EXCEPT !.state = STATE_DEC_HASH], i |-> i]
    [] ch = 72 -> [t |-> tabSet(t), i |-> i]
    [] ch = 61 -> [t |-> [t EXCEPT !.applicationKeypad = TRUE, !.state = STATE_NORMAL],
                   i |-> i]
    [] ch = 62 -> [t |-> [t EXCEPT !.applicationKeypad = FALSE, !.state = STATE_NORMAL],
                   i |-> i]
    [] OTHER -> [t |-> [t EXCEPT !.state = STATE_NORMAL], i |-> i]

processDataCharset(t, ch, i) ==
  LET cs == IF ch = 48 THEN CharsetSCLD ELSE CharsetNull
      r == [setgCharset(t, t.gcharset, cs) EXCEPT !.gcharset = -1,
                                                  !.state = STATE_NORMAL]
  IN [t |-> r, i |-> IF ch = 47 THEN i + 1 ELSE i]

processDataOSC(t, ch, i) ==
  IF ch = ESC \/ ch = BEL
  THEN LET ps == Append(t.params, t.currentParam)
           titled == ps[1] \in {Num(0), Num(1), Num(2)} /\ Truthy(Param(ps, 1))
           a == IF titled THEN emit([t EXCEPT !.title = ps[2].str], "title", <<ps[2].str>>)
                ELSE t
       IN [t |-> [a EXCEPT !.params = <<>>, !.currentParam = Num(0),
                           !.state = STATE_NORMAL],
           i |-> IF ch = ESC THEN i + 1 ELSE i]
  ELSE IF t.params = <<>>
  THEN IF IsDigit(ch)
       THEN [t |-> [t EXCEPT !.currentParam = Num(@.num * 10 + ch - 48)], i |-> i]
       ELSE IF ch = 59
       THEN [t |-> [t EXCEPT !.params = Append(@, t.currentParam),
                             !.currentParam = Str(<<>>)], i |-> i]
       ELSE [t |-> t, i |-> i]
  ELSE [t |-> [t EXCEPT !.currentParam = AddCh(@, ch)], i |-> i]

processDataIgnore(t, ch, i) ==
  IF ch = ESC \/ ch = BEL
  THEN [t |-> [t EXCEPT !.state = STATE_NORMAL], i |-> IF ch = ESC THEN i + 1 ELSE i]
  ELSE [t |-> t, i |-> i]

processDataDecHash(t, ch, i) ==
  [t |-> [(IF ch = 56 THEN fillScreen(t, 69) ELSE t) EXCEPT !.state = STATE_NORMAL],
   i |-> i]

\* '' + p, the string a parameter concatenates as
ParamStr(p) == IF p.isStr THEN p.str ELSE Digits(p.num)

\* the reply text of DECRQSS for the request pt
ReplyPt(t, pt) ==
  CASE pt = Str(<<34, 113>>) -> <<48, 34, 113>>
    [] pt = Str(<<34, 112>>) -> <<54, 49, 34, 112>>
    [] pt = Str(<<114>>) ->
         Digits(t.scrollTop + 1) \o <<59>> \o Digits(t.scrollBottom + 1) \o <<114>>
    [] pt = Str(<<109>>) -> <<48, 109>>
    [] OTHER -> <<>>

processDataDCS(t, ch, i) ==
  IF ch = ESC \/ ch = BEL
  THEN LET a == CASE t.prefix = <<36, 113>> ->
                       send(t, <<ESC, 80, 48, 36, 114>> \o ReplyPt(t, t.currentParam)
                               \o <<ESC, 92>>)
                  [] t.prefix = <<43, 113>> ->
                       send(t, <<ESC, 80, 48, 43, 114>> \o ParamStr(t.currentParam)
                               \o <<ESC, 92>>)
                  [] OTHER -> t
       IN [t |-> [a EXCEPT !.currentParam = Num(0), !.prefix = <<>>,
                           !.state = STATE_NORMAL],
           i |-> IF ch = ESC THEN i + 1 ELSE i]
  ELSE IF ~Truthy(t.currentParam)
  THEN IF t.prefix = <<>> /\ ch # 36 /\ ch # 43
       THEN [t |-> [t EXCEPT !.currentParam = Str(<<ch>>)], i |-> i]
       ELSE IF Len(t.prefix) = 2
       THEN [t |-> [t EXCEPT !.currentParam = Str(<<ch>>)], i |-> i]
       ELSE [t |-> [t EXCEPT !.prefix = Append(@, ch)], i |-> i]
  ELSE [t |-> [t EXCEPT !.currentParam = AddCh(@, ch)], i |-> i]

IsCookieChar(ch) ==
  \/ ch >= 97 /\ ch <= 122
  \/ ch >= 65 /\ ch <= 90
  \/ IsDigit(ch)
  \/ ch = 45
  \/ ch = 47

\* _processDataApplicationStart that starts application mode whatever the
\* cookie
processDataApplicationStartAnyCookie(t, ch, i) ==
  IF IsCookieChar(ch) THEN [t |-> [t EXCEPT !.currentParam = AddCh(@, ch)], i |-> i]
  ELSE IF ch = 59
  THEN [t |-> [t EXCEPT !.params = Append(@, t.currentParam),
                        !.currentParam = Str(<<>>)], i |-> i]
  ELSE IF ch = BEL
  THEN LET ps == Append(t.params, t.currentParam)
       IN [t |-> emit([t EXCEPT !.params = ps, !.state = STATE_APPLICATION_END],
                      "application-mode-start",
                      [k \in 1..Len(ps) |-> ParamStr(ps[k])]),
           i |-> i]
  ELSE [t |-> [t EXCEPT !.state = STATE_NORMAL], i |-> i]

processDataApplicationStart(t, ch, i) ==
  IF IsCookieChar(ch) THEN [t |-> [t EXCEPT !.currentParam = AddCh(@, ch)], i |-> i]
  ELSE IF ch = 59
  THEN [t |-> [t EXCEPT !.params = Append(@, t.currentParam),
                        !.currentParam = Str(<<>>)], i |-> i]
  ELSE IF ch = BEL
  THEN LET ps == Append(t.params, t.currentParam)
           p == [t EXCEPT !.params = ps]
       IN IF ps[1] = t.applicationModeCookie
          THEN [t |-> emit([p EXCEPT !.state = STATE_APPLICATION_END],
                           "application-mode-start",
                           [k \in 1..Len(ps) |-> ParamStr(ps[k])]),
                i |-> i]
          ELSE [t |-> [p EXCEPT !.state = STATE_NORMAL], i |-> i]
  ELSE [t |-> [t EXCEPT !.state = STATE_NORMAL], i |-> i]

\* data.indexOf('\x00', i), -1 when there is none
IndexOfNul(data, i) ==
  LET at == {k \in i..(Len(data) - 1) : data[k + 1] = 0}
  IN IF at = {} THEN -1 ELSE CHOOSE k \in at : \A m \in at : k <= m

\* _processDataApplicationEnd that hands on the rest of the chunk, the
\* end-mode character and what follows it included
processDataApplicationEndUncut(t, data, i) ==
  LET nextzero == IndexOfNul(data, i)
  IN IF nextzero = -1
     THEN [t |-> emit(t, "application-mode-data", <<SubSeq(data, i + 1, Len(data))>>),
           i |-> Len(data) - 1]
     ELSE IF nextzero = i
     THEN [t |-> emit([t EXCEPT !.state = STATE_NORMAL], "application-mode-end", <<>>),
           i |-> i]
     ELSE [t |-> emit(t, "application-mode-data", <<SubSeq(data, i + 1, Len(data))>>),
           i |-> nextzero - 1]

processDataApplicationEnd(t, data, i) ==
  LET nextzero == IndexOfNul(data, i)
  IN IF nextzero = -1
     THEN [t |-> emit(t, "application-mode-data", <<SubSeq(data, i + 1, Len(data))>>),
           i |-> Len(data) - 1]
     ELSE IF nextzero = i
     THEN [t |-> emit([t EXCEPT !.state = STATE_NORMAL], "application-mode-end", <<>>),
           i |-> i]
     ELSE [t |-> emit(t, "application-mode-data", <<SubSeq(data, i + 1, nextzero)>>),
           i |-> nextzero - 1]

\* '\n', '\x0b', '\x0c' in the Normal state (convertEol is off by default)
lineFeed(t) == IF t.y + 1 > t.scrollBottom THEN scroll(t) ELSE [t EXCEPT !.y = t.y + 1]

\* a printable character in the Normal state
printChar(t, ch0) ==
  LET ch == IF t.charset = CharsetSCLD /\ ch0 >= 96 /\ ch0 <= 126
            THEN SCLD[ch0 - 95] ELSE ch0
      \* w is the terminal after the wrap at the right margin
      Put(w) ==
        LET row == w.y + w.ybase
            l == GetRowLines(w, row)
            blank == <<w.curAttr, 32>>
            l0 == l[row + 1]
            l1 == IF w.insertMode
                  THEN LET a == Splice(l0, w.x, 0, <<blank>>)
                           b == IF isWide(ch) THEN Splice(a, w.x, 0, <<blank>>) ELSE a
                       IN Splice(b, w.cols, Len(b) - w.cols, <<>>)
                  ELSE l0
            l2 == SetAt(l1, w.x, <<w.curAttr, ch>>)
            x1 == w.x + 1
            narrow == updateRange([w EXCEPT !.lines = [l EXCEPT ![row + 1] = l2], !.x = x1],
                                  w.y)
        IN IF ~isWide(ch) THEN narrow
           ELSE IF w.cols < 2 \/ x1 >= w.cols
           THEN [narrow EXCEPT !.lines[row + 1] = SetAt(l2, x1 - 1, blank)]
           ELSE [narrow EXCEPT !.lines[row + 1] = SetAt(l2, x1, blank), !.x = x1 + 1]
  IN Put(IF t.x >= t.cols
         THEN lineFeed(updateRange([t EXCEPT !.x = 0], t.y))
         ELSE t)

processDataNormal(t, ch, i) ==
  [t |-> CASE ch = BEL -> emit(t, "bell", <<>>)
           [] ch \in {10, 11, 12} -> lineFeed(t)
           [] ch = 13 -> [t EXCEPT !.x = 0]
           [] ch = 8 -> [t EXCEPT !.x = IF @ > 0 THEN @ - 1 ELSE @]
           [] ch = 9 -> [t EXCEPT !.x = nextStop(t, t.x)]
           [] ch = 14 -> setgLevel(t, 1)
           [] ch = 15 -> setgLevel(t, 0)
           [] ch = ESC -> [t EXCEPT !.state = STATE_ESCAPE]
           [] OTHER -> IF ch >= 32 THEN printChar(t, ch) ELSE t,
   i |-> i]

\* the switch on this.state for the byte data[i]
processByte(t, data, i) ==
  LET ch == data[i + 1]
  IN CASE t.state = STATE_NORMAL -> processDataNormal(t, ch, i)
       [] t.state = STATE_ESCAPE -> processDataEscape(t, ch, i)
       [] t.state = STATE_CHARSET -> processDataCharset(t, ch, i)
       [] t.state = STATE_OSC -> processDataOSC(t, ch, i)
       [] t.state = STATE_CSI -> processDataCSI(t, ch, i)
       [] t.state = STATE_DCS -> processDataDCS(t, ch, i)
       [] t.state = STATE_IGNORE -> processDataIgnore(t, ch, i)
       [] t.state = STATE_APPLICATION_START -> processDataApplicationStart(t, ch, i)
       [] t.state = STATE_APPLICATION_END -> processDataApplicationEnd(t, data, i)
       [] t.state = STATE_DEC_HASH -> processDataDecHash(t, ch, i)

\* the for loop of _processWriteData from index i; an exception leaves it
RECURSIVE processLoop(_, _, _)
processLoop(t, data, i) ==
  IF i >= Len(data) THEN updateRange(t, t.y)
  ELSE LET \* r is what the switch returned for data[i]
           Rest(r) ==
             IF r.t.threw THEN r.t
             ELSE processLoop(IF r.t.y # r.t.oldy
                              THEN [updateRange(updateRange(r.t, r.t.oldy), r.t.y)
                                      EXCEPT !.oldy = r.t.y]
                              ELSE r.t,
                              data, r.i + 1)
       IN Rest(processByte(t, data, i))

\* _processWriteData with a parser that starts every chunk afresh, in
\* the Normal state
processWriteDataFromNormal(t, data) ==
  LET s == IF t.ybase # t.ydisp THEN maxRange([t EXCEPT !.ydisp = t.ybase]) ELSE t
  IN processLoop([s EXCEPT !.oldy = s.y, !.state = STATE_NORMAL], data, 0)

\* _processWriteData(data)
processWriteData(t, data) ==
  LET s == IF t.ybase # t.ydisp THEN maxRange([t EXCEPT !.ydisp = t.ybase]) ELSE t
  IN processLoop([s EXCEPT !.oldy = s.y], data, 0)

(***************************************************************************)
(* The state of the model.                                                 *)
(***************************************************************************)
VARIABLES
  term,     \* the Terminal object
  steps,    \* number of operations performed so far
  last,     \* the data of the last write or the mark of the last mouse event,
            \* <<>> after any other operation
  before,   \* the Terminal object as the last operation found it
  entry,    \* the buffer and cursor when the alternate screen was entered
  split,    \* "first" between the two parts of a split write, then "joined"
  pending,  \* the part of a split write that is still to be written
  whole,    \* the Terminal object had the split write been written in one piece
  writeBuffers,            \* _writeBuffers: the strings waiting to be processed
  processWriteChunkTimer,  \* _processWriteChunkTimer: -1 or the id of a timer
  refreshTimer,            \* _refreshTimer: -1 or the id of a timer
  pendingProcess,  \* number of write-chunk timers the event loop holds
  pendingRefresh,  \* the delays of the refresh timers the event loop holds
  written,         \* the lengths of the arguments of write(), in call order
  parsed,          \* the chunks handed to _processWriteData, in call order
  position,   \* where _processWriteChunkRealTime is: "idle", "loop" or "chunk"
  destroyed,  \* destroy() has replaced write and handler by empty functions
  blink,      \* the event loop holds the cursor-blink interval (_blink)
  events,     \* _events: the event types that have a listener
  atReset,    \* _writeBuffers and the number of chunks parsed at the last reset()
  reentrant,  \* number of write() calls made by listeners during processing
  emitter     \* _events[type] of one more type, listener by listener, and its last emit

engineVars == <<term, steps, last, before, entry, split, pending, whole>>
schedVars == <<writeBuffers, processWriteChunkTimer, refreshTimer, pendingProcess,
               pendingRefresh, written, parsed>>
apiVars == <<position, destroyed, blink, events, atReset, reentrant, emitter>>
vars == <<engineVars, schedVars, apiVars>>

\* the start of an operation: the exception of the previous one, if any,
\* has propagated to the caller, and the emissions are collected afresh
Called(t) == [t EXCEPT !.threw = FALSE, !.out = <<>>]

(***************************************************************************)
(* Byte strings written to the terminal.                                   *)
(***************************************************************************)
CSI(body) == <<ESC, 91>> \o body

\* 'a' and 'aa'
TextA == <<97>>
TextAA == <<97, 97>>
\* '\n'
LF == <<10>>
\* ESC [ 1 K, erase to the left (EL 1)
EL1 == CSI(<<49, 75>>)
\* ESC [ P, delete character (DCH)
DCH == CSI(<<80>>)
\* ESC [ b, repeat the preceding character (REP)
REP == CSI(<<98>>)
\* ESC [ 9 G, cursor character absolute (CHA)
CHA9 == CSI(<<57, 71>>)
\* ESC [ 1 ; 9 r and ESC [ 5 ; 2 r, set scrolling region (DECSTBM)
STBM19 == CSI(<<49, 59, 57, 114>>)
STBM52 == CSI(<<53, 59, 50, 114>>)
\* ESC [ M, delete line (DL)
DL == CSI(<<77>>)
\* ESC 7 and ESC 8, save and restore cursor (DECSC, DECRC)
DECSC == <<ESC, 55>>
DECRC == <<ESC, 56>>
\* ESC c, full reset (RIS)
RIS == <<ESC, 99>>
\* ESC [ ? 47 h, ESC [ ? 1047 h, ESC [ ? 1049 h and the matching resets
ALT47h == CSI(<<63, 52, 55, 104>>)
ALT1047h == CSI(<<63, 49, 48, 52, 55, 104>>)
ALT1049h == CSI(<<63, 49, 48, 52, 57, 104>>)
ALT47l == CSI(<<63, 52, 55, 108>>)
ALT1047l == CSI(<<63, 49, 48, 52, 55, 108>>)
ALT1049l == CSI(<<63, 49, 48, 52, 57, 108>>)

EnterAlt == {ALT47h, ALT1047h, ALT1049h}
LeaveAlt == {ALT47l, ALT1047l, ALT1049l}

\* the strings written in Spec
Data == {TextA, LF, EL1, DCH, REP, CHA9, STBM19, STBM52, DL, DECSC, DECRC,
         ALT47h, ALT47l}

\* the geometries resize() is called with
Sizes == {<<1, 1>>, <<Cols, Rows>>, <<Cols + 1, Rows + 1>>}

\* the arguments of scrollDisp()
Deltas == {-(Scrollback + Rows), -1, 1, Scrollback + Rows}

(***************************************************************************)
(* Operations on the engine.                                               *)
(***************************************************************************)
\* no listener of the type and no emit so far
NoEmitter == [listeners |-> <<>>, began |-> <<>>, calls |-> <<>>, threw |-> FALSE,
              emitted |-> FALSE]

NoEntry == [active |-> FALSE, left |-> FALSE, lines |-> <<>>, ybase |-> 0, ydisp |-> 0,
            x |-> 0, y |-> 0, scrollTop |-> 0, scrollBottom |-> 0]

Init ==
  /\ term = Fresh(Cols, Rows, Scrollback)
  /\ steps = 0
  /\ last = <<>>
  /\ before = Fresh(Cols, Rows, Scrollback)
  /\ entry = NoEntry
  /\ split = "none"
  /\ pending = <<>>
  /\ whole = Fresh(Cols, Rows, Scrollback)
  /\ writeBuffers = <<>>
  /\ processWriteChunkTimer = -1
  /\ refreshTimer = -1
  /\ pendingProcess = 0
  /\ pendingRefresh = <<>>
  /\ written = <<>>
  /\ parsed = <<>>
  /\ position = "idle"
  /\ destroyed = FALSE
  /\ blink = FALSE
  /\ events = {}
  /\ emitter = NoEmitter
  /\ atReset = [bufs |-> <<>>, parsed |-> 0]
  /\ reentrant = 0

\* the record of the alternate screen after a write of data: an enter
\* sequence parsed outside the alternate screen notes the buffer, the cursor
\* and the scroll region, a leave sequence parsed inside it ends the stay
EntryAfter(e, t, data) ==
  IF t.state = STATE_NORMAL /\ data \in EnterAlt /\ ~e.active
  THEN [active |-> TRUE, left |-> FALSE, lines |-> t.lines, ybase |-> t.ybase,
        ydisp |-> t.ydisp, x |-> t.x, y |-> t.y,
        scrollTop |-> t.scrollTop, scrollBottom |-> t.scrollBottom]
  ELSE IF t.state = STATE_NORMAL /\ data \in LeaveAlt /\ e.active
  THEN [e EXCEPT !.active = FALSE, !.left = TRUE]
  ELSE [e EXCEPT !.left = FALSE]

\* write(data) and the processing of the chunk by _processWriteData
Write(data) ==
  /\ steps < MaxSteps
  /\ split # "first"
  /\ term' = processWriteData(Called(term), data)
  /\ steps' = steps + 1
  /\ last' = data
  /\ before' = term
  /\ entry' = EntryAfter(entry, term, data)
  /\ split' = "none"
  /\ UNCHANGED <<pending, whole>>
  /\ UNCHANGED schedVars
  /\ UNCHANGED apiVars

\* write(data) cut in two after k bytes, that is two calls of write(): the
\* first part is processed
WriteFirstPart(data, k) ==
  /\ steps + 1 < MaxSteps
  /\ split # "first"
  /\ term' = processWriteData(Called(term), SubSeq(data, 1, k))
  /\ whole' = processWriteData(Called(term), data)
  /\ pending' = SubSeq(data, k + 1, Len(data))
  /\ split' = "first"
  /\ steps' = steps + 2
  /\ last' = data
  /\ before' = term
  /\ entry' = EntryAfter(entry, term, data)
  /\ UNCHANGED schedVars
  /\ UNCHANGED apiVars

\* the second part of the split write is processed
WriteRest ==
  /\ split = "first"
  /\ term' = processWriteData([term EXCEPT !.threw = FALSE], pending)
  /\ pending' = <<>>
  /\ split' = "joined"
  /\ UNCHANGED <<steps, last, before, entry, whole>>
  /\ UNCHANGED schedVars
  /\ UNCHANGED apiVars

\* resize(newcols, newrows)
Resize(newcols, newrows) ==
  /\ steps < MaxSteps
  /\ split # "first"
  /\ term' = resize(Called(term), newcols, newrows)
  /\ steps' = steps + 1
  /\ last' = <<>>
  /\ before' = term
  /\ entry' = [entry EXCEPT !.left = FALSE]
  /\ split' = "none"
  /\ UNCHANGED <<pending, whole>>
  /\ UNCHANGED schedVars
  /\ UNCHANGED apiVars

\* scrollDisp(disp)
ScrollDisp(disp) ==
  /\ steps < MaxSteps
  /\ split # "first"
  /\ term' = scrollDisp(Called(term), disp)
  /\ steps' = steps + 1
  /\ last' = <<>>
  /\ before' = term
  /\ entry' = [entry EXCEPT !.left = FALSE]
  /\ split' = "none"
  /\ UNCHANGED <<pending, whole>>
  /\ UNCHANGED schedVars
  /\ UNCHANGED apiVars

Next ==
  \/ \E data \in Data : Write(data)
  \/ \E size \in Sizes : Resize(size[1], size[2])
  \/ \E disp \in Deltas : ScrollDisp(disp)

Spec == Init /\ [][Next]_vars

(***************************************************************************)
(* The geometry of an engine t (spec section 3).                           *)
(***************************************************************************)
RowsOk(t) == \A k \in 1..Len(t.lines) : Len(t.lines[k]) = t.cols
CursorOk(t) == 0 <= t.x /\ t.x <= t.cols /\ 0 <= t.y /\ t.y < t.rows
RegionOk(t) == 0 <= t.scrollTop /\ t.scrollTop <= t.scrollBottom /\ t.scrollBottom < t.rows
ViewOk(t) == 0 <= t.ydisp /\ t.ydisp <= t.ybase /\ t.ybase <= t.scrollback
CapOk(t) == Len(t.lines) <= t.scrollback + t.rows
GeometryOk(t) == RowsOk(t) /\ CursorOk(t) /\ RegionOk(t) /\ ViewOk(t) /\ CapOk(t)

\* C2: every row of `lines` has exactly cols cells after an operation that
\* found the geometry intact (DCH, EL 1 and REP with the cursor on the right
\* margin included).
C2_RowsHaveColsCells == GeometryOk(before) => RowsOk(term)

\* C3: 0 <= x <= cols and 0 <= y < rows after an operation that found the
\* geometry intact (CHA, REP, LF under any DECSTBM and DECRC included).
C3_CursorInBounds == GeometryOk(before) => CursorOk(term)

\* C4: 0 <= scrollTop <= scrollBottom < rows after an operation that found
\* the geometry intact, whatever the parameters of DECSTBM.
C4_RegionInBounds == GeometryOk(before) => RegionOk(term)

\* C5: 0 <= ydisp <= ybase and ybase <= scrollback in every state reached by
\* interleaving writes, scrollDisp with any delta, resize and entering and
\* leaving the alternate screen.
C5_ViewInBounds == ViewOk(term)

\* the view is scrolled back to the top of a full scrollback
C5_ScrolledBack ==
  term.ybase = term.scrollback /\ term.ybase > 0 /\ term.ydisp < term.ybase

\* C6: `lines` never holds more than scrollback + rows rows after an
\* operation that found the geometry intact.
C6_LinesCapped == GeometryOk(before) => CapOk(term)

(***************************************************************************)
(* The alternate screen: writes only.                                      *)
(***************************************************************************)
AltData == {TextAA, LF, RIS} \cup EnterAlt \cup LeaveAlt

NextAlt == \E data \in AltData : Write(data)

SpecAlt == Init /\ [][NextAlt]_vars

\* C9: entering the alternate screen, writing any bytes and leaving it
\* restores lines, ybase, ydisp and the cursor (x, y) to their values at
\* entry.
C9_LeaveRestores ==
  entry.left => /\ term.lines = entry.lines
                /\ term.ybase = entry.ybase
                /\ term.ydisp = entry.ydisp
                /\ term.x = entry.x
                /\ term.y = entry.y

\* the snapshot, the buffer, the cursor and the modes of two engines agree
SameScreen(a, b) ==
  /\ a.normal = b.normal
  /\ a.lines = b.lines /\ a.ybase = b.ybase
  /\ a.x = b.x /\ a.y = b.y
  /\ a.cursorState = b.cursorState /\ a.cursorHidden = b.cursorHidden
  /\ a.scrollTop = b.scrollTop /\ a.scrollBottom = b.scrollBottom /\ a.tabs = b.tabs
  /\ a.insertMode = b.insertMode /\ a.originMode = b.originMode
  /\ a.wraparoundMode = b.wraparoundMode
  /\ a.applicationKeypad = b.applicationKeypad
  /\ a.applicationCursor = b.applicationCursor
  /\ a.curAttr = b.curAttr /\ a.charset = b.charset /\ a.glevel = b.glevel
  /\ a.charsets = b.charsets
  /\ a.mouseEvents = b.mouseEvents /\ a.x10Mouse = b.x10Mouse
  /\ a.vt200Mouse = b.vt200Mouse /\ a.normalMouse = b.normalMouse
  /\ a.utfMouse = b.utfMouse /\ a.sgrMouse = b.sgrMouse /\ a.urxvtMouse = b.urxvtMouse
  /\ a.sendFocus = b.sendFocus

\* the last write was an enter sequence, parsed while a snapshot was saved
EnteredAgain ==
  last \in EnterAlt /\ before.state = STATE_NORMAL /\ before.normal.saved

\* C10: while a snapshot is saved, a further enter sequence is a no-op: the
\* snapshot, the buffer, the cursor and the modes are unchanged.
C10_EnterAgainNoOp == EnteredAgain => SameScreen(term, before)

\* a second enter sequence after text was written to the alternate screen
C10_EnteredAgainWithText ==
  EnteredAgain /\ before.x > 0 /\ before.normal.x > 0 /\ ~term.threw

(***************************************************************************)
(* Writes split in two.                                                    *)
(***************************************************************************)
\* ESC [ 2 ; 2 H (CUP), ESC [ ? 2 5 l (DECTCEM), ESC [ 6 n (DSR), ESC [ ! p
\* (DECSTR)
CUP22 == CSI(<<50, 59, 50, 72>>)
HideCursor == CSI(<<63, 50, 53, 108>>)
DSR6 == CSI(<<54, 110>>)
DECSTR == CSI(<<33, 112>>)
\* ESC ] 0 ; t ESC \ and ESC ] 2 ; t BEL (OSC, set title)
OscTitleST == <<ESC, 93, 48, 59, 116, ESC, 92>>
OscTitleBEL == <<ESC, 93, 50, 59, 116, BEL>>
\* ESC P $ q r ESC \ (DCS, DECRQSS of DECSTBM)
DcsRequest == <<ESC, 80, 36, 113, 114, ESC, 92>>
\* ESC ^ x ESC \ (PM) and ESC _ x ESC \ (APC)
PM == <<ESC, 94, 120, ESC, 92>>
APC == <<ESC, 95, 120, ESC, 92>>
\* ESC % G (select UTF-8)
SelectUTF8 == <<ESC, 37, 71>>

\* the CSI sequences and the other multi-byte sequences that are split
CsiData == {CUP22, HideCursor, EL1, DSR6, DECSTR, ALT1049h}
StringData == {OscTitleST, OscTitleBEL, DcsRequest, PM, APC, SelectUTF8}

\* what is written in one piece before a split write
WholeData == {TextA, LF}

NextSplit ==
  \/ \E data \in WholeData : Write(data)
  \/ \E data \in CsiData \cup StringData : \E k \in 1..(Len(data) - 1) :
       WriteFirstPart(data, k)
  \/ WriteRest

SpecSplit == Init /\ [][NextSplit]_vars

\* C7: a CSI sequence split at any byte position across two writes leaves
\* exactly the terminal state, and the emissions, of the unsplit sequence.
C7_SplitCsiSame == (split = "joined" /\ last \in CsiData) => term = whole

\* a CSI sequence cut inside its parameters moved the cursor
C7_SplitCup ==
  /\ split = "joined" /\ last = CUP22 /\ term.x = 1 /\ term.y = 1
  /\ before.x = 0 /\ before.ybase > 0

\* C8: an OSC, DCS, PM or APC sequence ended by ST, or ESC % <byte>, split
\* at any byte position leaves the final state of the unsplit sequence.
C8_SplitStringSame == (split = "joined" /\ last \in StringData) => term = whole

(***************************************************************************)
(* The write scheduler.  What it does depends on the lengths of the        *)
(* strings only: a string is the range lo..hi of the characters of the     *)
(* w-th write that it holds, and slice() cuts ranges.                      *)
(***************************************************************************)
\* the lengths of the strings passed to write()
Lengths == {0, 1, MAX_PROCESS_WRITE_SIZE, MAX_PROCESS_WRITE_SIZE + 1,
            2 * MAX_PROCESS_WRITE_SIZE + 1}

StrLen(c) == c.hi - c.lo

\* chunk.slice(from) and chunk.slice(0, to)
SliceFrom(c, from) == [c EXCEPT !.lo = Min(c.lo + from, c.hi)]
SliceTo(c, to) == [c EXCEPT !.hi = Min(c.lo + to, c.hi)]

\* _processOneWriteChunk that keeps the rest of a long string but hands the
\* whole string over
processOneWriteChunkUncut(bufs) ==
  IF StrLen(bufs[1]) <= MAX_PROCESS_WRITE_SIZE
  THEN [chunk |-> bufs[1], bufs |-> Tail(bufs)]
  ELSE [chunk |-> bufs[1],
        bufs |-> <<SliceFrom(bufs[1], MAX_PROCESS_WRITE_SIZE)>> \o Tail(bufs)]

\* _processOneWriteChunk() on non-empty buffers: the chunk handed to
\* _processWriteData and the buffers left
processOneWriteChunk(bufs) ==
  IF StrLen(bufs[1]) <= MAX_PROCESS_WRITE_SIZE
  THEN [chunk |-> bufs[1], bufs |-> Tail(bufs)]
  ELSE [chunk |-> SliceTo(bufs[1], MAX_PROCESS_WRITE_SIZE),
        bufs |-> <<SliceFrom(bufs[1], MAX_PROCESS_WRITE_SIZE)>> \o Tail(bufs)]

\* n calls of _processOneWriteChunk(): the chunks handed over, in order,
\* and the buffers left
RECURSIVE processChunks(_, _)
processChunks(bufs, n) ==
  IF n = 0 \/ bufs = <<>> THEN [chunks |-> <<>>, bufs |-> bufs]
  ELSE LET one == processOneWriteChunk(bufs)
           more == processChunks(one.bufs, n - 1)
       IN [chunks |-> <<one.chunk>> \o more.chunks, bufs |-> more.bufs]

\* the number of calls of _processOneWriteChunk() that empty the buffers
RECURSIVE ChunksLeft(_)
ChunksLeft(bufs) ==
  IF bufs = <<>> THEN 0 ELSE 1 + ChunksLeft(processOneWriteChunk(bufs).bufs)

\* write(data) with a _scheduleProcessWriteChunk that sets a timer whether
\* or not one is set already
writeAlwaysSchedules(len) ==
  /\ Len(written) < MaxWrites
  /\ written' = Append(written, len)
  /\ writeBuffers' = Append(writeBuffers, [w |-> Len(written) + 1, lo |-> 0, hi |-> len])
  /\ processWriteChunkTimer' = 1
  /\ pendingProcess' = pendingProcess + 1
  /\ UNCHANGED <<refreshTimer, pendingRefresh, parsed>>
  /\ UNCHANGED engineVars
  /\ UNCHANGED apiVars

\* write(data) with a string of len characters
write(len) ==
  /\ Len(written) < MaxWrites
  /\ written' = Append(written, len)
  /\ writeBuffers' = Append(writeBuffers, [w |-> Len(written) + 1, lo |-> 0, hi |-> len])
  /\ IF processWriteChunkTimer = -1
     THEN processWriteChunkTimer' = 1 /\ pendingProcess' = pendingProcess + 1
     ELSE UNCHANGED <<processWriteChunkTimer, pendingProcess>>
  /\ UNCHANGED <<refreshTimer, pendingRefresh, parsed>>
  /\ UNCHANGED engineVars
  /\ UNCHANGED apiVars

\* the write-chunk timer fires and _processWriteChunkRealTime() runs: it
\* re-arms the timer, then hands n chunks to the parser until the buffers
\* are empty ("drained"), MAX_BATCH_TIME has passed ("late") or the parser
\* throws on the n-th chunk ("threw")
processWriteChunkRealTime(n, outcome) ==
  LET done == processChunks(writeBuffers, n)
      left == ChunksLeft(writeBuffers)
      delay == IF outcome = "drained" THEN 0 ELSE REFRESH_DELAY
  IN /\ pendingProcess > 0
     /\ outcome = "drained" => n = left
     /\ outcome = "late" => 1 <= n /\ n < left
     /\ outcome = "threw" => 1 <= n /\ n <= left
     /\ writeBuffers' = done.bufs
     /\ parsed' = parsed \o done.chunks
     /\ IF outcome = "drained"
        THEN processWriteChunkTimer' = -1 /\ pendingProcess' = pendingProcess - 1
        ELSE processWriteChunkTimer' = 1 /\ pendingProcess' = pendingProcess
     /\ IF outcome # "threw" /\ refreshTimer = -1
        THEN refreshTimer' = 1 /\ pendingRefresh' = Append(pendingRefresh, delay)
        ELSE UNCHANGED <<refreshTimer, pendingRefresh>>
     /\ UNCHANGED written
     /\ UNCHANGED engineVars
     /\ UNCHANGED apiVars

\* the refresh timer fires and _refreshFrame() runs
refreshTimerFires ==
  /\ pendingRefresh # <<>>
  /\ pendingRefresh' = Tail(pendingRefresh)
  /\ refreshTimer' = -1
  /\ term' = refreshFrame(Called(term))
  /\ UNCHANGED <<steps, last, before, entry, split, pending, whole>>
  /\ UNCHANGED <<writeBuffers, processWriteChunkTimer, pendingProcess, written, parsed>>
  /\ UNCHANGED apiVars

NextSched ==
  \/ \E len \in Lengths : write(len)
  \/ \E n \in 0..(3 * MaxWrites) : \E outcome \in {"drained", "late", "threw"} :
       processWriteChunkRealTime(n, outcome)
  \/ refreshTimerFires

SpecSched == Init /\ [][NextSched]_vars

\* the number of characters written before the w-th write
RECURSIVE WrittenBefore(_)
WrittenBefore(w) == IF w <= 1 THEN 0 ELSE WrittenBefore(w - 1) + written[w - 1]

\* the number of characters handed to the parser before the k-th chunk
RECURSIVE ParsedBefore(_)
ParsedBefore(k) == IF k <= 1 THEN 0 ELSE ParsedBefore(k - 1) + StrLen(parsed[k - 1])

\* C1: the chunks handed to _processWriteData, concatenated, are a prefix
\* of the concatenation of the arguments of write() in call order: the
\* k-th chunk holds exactly the characters that follow those of the chunks
\* before it, so no character is parsed twice, skipped or out of order.
C1_ParsedIsPrefix ==
  \A k \in 1..Len(parsed) :
    LET c == parsed[k]
    IN /\ c.w \in 1..Len(written)
       /\ 0 <= c.lo /\ c.lo <= c.hi /\ c.hi <= written[c.w]
       /\ WrittenBefore(c.w) + c.lo = ParsedBefore(k)

\* a write longer than MAX_PROCESS_WRITE_SIZE went to the parser in three
\* chunks, the write after it in one, and nothing is left
C1_LongWriteChunked ==
  /\ Len(parsed) = 4 /\ writeBuffers = <<>>
  /\ parsed[1].w = 1 /\ parsed[2].w = 1 /\ parsed[3].w = 1 /\ parsed[4].w = 2
  /\ StrLen(parsed[3]) = 1 /\ StrLen(parsed[4]) = 1

(***************************************************************************)
(* Full reset: reset() called directly and ESC c (RIS) in the stream.      *)
(***************************************************************************)
\* ESC [ ? 1004 h (focus events), ESC [ ? 1000 h (vt200 mouse), ESC [ 4 h
\* (insert mode), ESC H (set a tab stop)
FocusOn == CSI(<<63, 49, 48, 48, 52, 104>>)
MouseOn == CSI(<<63, 49, 48, 48, 48, 104>>)
InsertOn == CSI(<<52, 104>>)
HTS == <<ESC, 72>>

ResetData == {TextA, LF, CUP22, DECSC, FocusOn, MouseOn, InsertOn, HTS, RIS}

\* reset(): _writeBuffers and the timers are not touched
Reset ==
  /\ steps < MaxSteps
  /\ split # "first"
  /\ term' = reset(Called(term))
  /\ steps' = steps + 1
  /\ last' = <<>>
  /\ before' = term
  /\ entry' = [entry EXCEPT !.left = FALSE]
  /\ split' = "none"
  /\ atReset' = [bufs |-> writeBuffers, parsed |-> Len(parsed)]
  /\ UNCHANGED <<pending, whole>>
  /\ UNCHANGED schedVars
  /\ UNCHANGED <<position, destroyed, blink, events, reentrant, emitter>>

NextReset ==
  \/ \E data \in ResetData : Write(data)
  \/ Reset

SpecReset == Init /\ [][NextReset]_vars

\* the engine state of t: parser, cursor, saved cursor, scroll region,
\* modes, charsets, style, tab stops and buffer
EngineState(t) ==
  [state |-> t.state, params |-> t.params, currentParam |-> t.currentParam,
   prefix |-> t.prefix, postfix |-> t.postfix,
   x |-> t.x, y |-> t.y, savedX |-> t.savedX, savedY |-> t.savedY,
   cursorState |-> t.cursorState, cursorHidden |-> t.cursorHidden,
   scrollTop |-> t.scrollTop, scrollBottom |-> t.scrollBottom,
   applicationKeypad |-> t.applicationKeypad, applicationCursor |-> t.applicationCursor,
   originMode |-> t.originMode, insertMode |-> t.insertMode,
   wraparoundMode |-> t.wraparoundMode,
   x10Mouse |-> t.x10Mouse, vt200Mouse |-> t.vt200Mouse, normalMouse |-> t.normalMouse,
   mouseEvents |-> t.mouseEvents, utfMouse |-> t.utfMouse, sgrMouse |-> t.sgrMouse,
   urxvtMouse |-> t.urxvtMouse, sendFocus |-> t.sendFocus,
   charset |-> t.charset, gcharset |-> t.gcharset, glevel |-> t.glevel,
   charsets |-> t.charsets,
   defAttr |-> t.defAttr, curAttr |-> t.curAttr,
   tabs |-> t.tabs,
   lines |-> t.lines, ybase |-> t.ybase, ydisp |-> t.ydisp, normal |-> t.normal]

\* the last operation was reset(), or a write of ESC c that the parser took
\* in the Normal state
WasReset ==
  /\ steps > 0
  /\ \/ last = <<>>
     \/ last = RIS /\ before.state = STATE_NORMAL

\* C11: after reset(), called directly or through ESC c, the engine state
\* equals that of a freshly constructed engine of the same geometry and
\* scrollback cap.
C11_ResetIsFresh ==
  WasReset => EngineState(term) = EngineState(Fresh(term.cols, term.rows, term.scrollback))

\* C12: no operation throws: after every write, resize and scroll of the
\* view the call has returned normally.
C12_NoException == ~term.threw

(***************************************************************************)
(* The write scheduler step by step: the timer callback, each turn of the  *)
(* loop of _processWriteChunkRealTime, and the calls that listeners make   *)
(* while _processWriteData runs.                                           *)
(***************************************************************************)
\* _scheduleRefresh(immediate), on the timer id and the timers held
scheduleRefresh(immediate) ==
  IF refreshTimer = -1
  THEN /\ refreshTimer' = 1
       /\ pendingRefresh' = Append(pendingRefresh, IF immediate THEN 0 ELSE REFRESH_DELAY)
  ELSE UNCHANGED <<refreshTimer, pendingRefresh>>

\* _processOneWriteChunk() returned false: the timer is cleared and an
\* immediate refresh is asked for
queueDrained ==
  /\ pendingProcess' = IF processWriteChunkTimer # -1 THEN pendingProcess - 1
                       ELSE pendingProcess
  /\ processWriteChunkTimer' = -1
  /\ scheduleRefresh(TRUE)
  /\ position' = "idle"

\* the write-chunk timer fires: the callback clears the id and
\* _processWriteChunkRealTime() arms the timer again before its loop
processWriteChunkTimerFires ==
  /\ position = "idle"
  /\ pendingProcess > 0
  /\ position' = "loop"
  /\ processWriteChunkTimer' = 1
  /\ UNCHANGED <<writeBuffers, refreshTimer, pendingProcess, pendingRefresh, written, parsed>>
  /\ UNCHANGED <<destroyed, blink, events, atReset, reentrant, emitter>>
  /\ UNCHANGED engineVars

\* _processOneWriteChunk() up to its call of _processWriteData
takeWriteChunk ==
  /\ position = "loop"
  /\ IF writeBuffers = <<>>
     THEN queueDrained /\ UNCHANGED <<writeBuffers, parsed>>
     ELSE /\ writeBuffers' = processOneWriteChunk(writeBuffers).bufs
          /\ parsed' = Append(parsed, processOneWriteChunk(writeBuffers).chunk)
          /\ position' = "chunk"
          /\ UNCHANGED <<processWriteChunkTimer, refreshTimer, pendingProcess,
                         pendingRefresh>>
  /\ UNCHANGED written
  /\ UNCHANGED <<destroyed, blink, events, atReset, reentrant, emitter>>
  /\ UNCHANGED engineVars

\* write(data) called by a listener while _processWriteData runs
writeFromListener(len) ==
  /\ position = "chunk"
  /\ Len(written) < MaxWrites
  /\ written' = Append(written, len)
  /\ writeBuffers' = Append(writeBuffers, [w |-> Len(written) + 1, lo |-> 0, hi |-> len])
  /\ IF processWriteChunkTimer = -1
     THEN processWriteChunkTimer' = 1 /\ pendingProcess' = pendingProcess + 1
     ELSE UNCHANGED <<processWriteChunkTimer, pendingProcess>>
  /\ reentrant' = reentrant + 1
  /\ UNCHANGED <<refreshTimer, pendingRefresh, parsed>>
  /\ UNCHANGED <<position, destroyed, blink, events, atReset, emitter>>
  /\ UNCHANGED engineVars

\* the end of _processWriteData with a loop that clears the timer when it
\* leaves for MAX_BATCH_TIME
writeChunkDoneLateClears(outcome) ==
  /\ position = "chunk"
  /\ CASE outcome = "threw" ->
            /\ position' = "idle"
            /\ UNCHANGED <<processWriteChunkTimer, refreshTimer, pendingProcess,
                           pendingRefresh>>
       [] outcome = "more" ->
            IF writeBuffers = <<>> THEN queueDrained
            ELSE /\ position' = "loop"
                 /\ UNCHANGED <<processWriteChunkTimer, refreshTimer, pendingProcess,
                                pendingRefresh>>
       [] outcome = "late" ->
            /\ writeBuffers # <<>>
            /\ queueDrained
  /\ UNCHANGED <<writeBuffers, written, parsed>>
  /\ UNCHANGED <<destroyed, blink, events, atReset, reentrant, emitter>>
  /\ UNCHANGED engineVars

\* _processWriteData ends and the loop goes on: it throws ("threw"), or it
\* returns and the time spent is within MAX_BATCH_TIME ("more") or not
\* ("late")
writeChunkDone(outcome) ==
  /\ position = "chunk"
  /\ CASE outcome = "threw" ->
            /\ position' = "idle"
            /\ UNCHANGED <<processWriteChunkTimer, refreshTimer, pendingProcess,
                           pendingRefresh>>
       [] outcome = "more" ->
            IF writeBuffers = <<>> THEN queueDrained
            ELSE /\ position' = "loop"
                 /\ UNCHANGED <<processWriteChunkTimer, refreshTimer, pendingProcess,
                                pendingRefresh>>
       [] outcome = "late" ->
            /\ writeBuffers # <<>>
            /\ scheduleRefresh(FALSE)
            /\ position' = "idle"
            /\ UNCHANGED <<processWriteChunkTimer, pendingProcess>>
  /\ UNCHANGED <<writeBuffers, written, parsed>>
  /\ UNCHANGED <<destroyed, blink, events, atReset, reentrant, emitter>>
  /\ UNCHANGED engineVars

NextTasks ==
  \/ \E len \in Lengths : position = "idle" /\ write(len)
  \/ processWriteChunkTimerFires
  \/ takeWriteChunk
  \/ \E len \in Lengths : writeFromListener(len)
  \/ \E outcome \in {"more", "late", "threw"} : writeChunkDone(outcome)
  \/ position = "idle" /\ refreshTimerFires

SpecTasks == Init /\ [][NextTasks]_vars

\* C14: at any moment the event loop holds at most one write-processing
\* task, whatever the interleaving of write() calls, those made by
\* listeners during processing included, and timer callbacks.
C14_OneTaskPending == pendingProcess <= 1

\* a listener called write() while a chunk was being processed, and the
\* task armed by the callback is the one pending
C14_WriteDuringChunk == position = "chunk" /\ reentrant > 0 /\ pendingProcess = 1

\* C15: when a processing task has drained the write queue (no task is
\* pending and none runs), the refresh that is scheduled runs immediately:
\* the refresh timer the event loop holds has delay zero.
C15_DrainRefreshesAtOnce ==
  (position = "idle" /\ pendingProcess = 0 /\ pendingRefresh # <<>>)
    => pendingRefresh[1] = 0

(***************************************************************************)
(* reset() while written data waits in _writeBuffers.                      *)
(***************************************************************************)
NextResetTasks ==
  \/ NextTasks
  \/ position = "idle" /\ Reset

SpecResetTasks == Init /\ [][NextResetTasks]_vars

\* C17: the characters that write() had buffered and that were not yet
\* processed when reset() ran are discarded: no chunk handed to the parser
\* after the reset holds any of them.
C17_ResetDiscardsBuffered ==
  \A k \in 1..Len(parsed) : \A b \in 1..Len(atReset.bufs) :
    k > atReset.parsed =>
      ~(parsed[k].w = atReset.bufs[b].w /\ parsed[k].hi > atReset.bufs[b].lo)

(***************************************************************************)
(* destroy(), with the tasks the event loop may hold when it is called:    *)
(* the write-chunk timer, the refresh timer, the timer of send() and the   *)
(* cursor-blink interval.                                                  *)
(***************************************************************************)
\* the event type that handler() emits
EventTypes == {"data"}

\* focus()
focus(t) ==
  LET s == IF t.sendFocus THEN send(t, <<ESC, 91, 73>>) ELSE t
      c == showCursor(s)
  IN IF c.threw THEN c ELSE [c EXCEPT !.hasFocus = TRUE]

\* _cursorBlink()
cursorBlink(t) ==
  IF ~t.hasFocus THEN t
  ELSE refresh([t EXCEPT !.cursorState = ~t.cursorState], t.y, t.y)

\* on(type, listener)
on(type) ==
  /\ ~destroyed
  /\ type \notin events
  /\ events' = events \cup {type}
  /\ UNCHANGED <<position, destroyed, blink, atReset, reentrant, emitter>>
  /\ UNCHANGED engineVars
  /\ UNCHANGED schedVars

\* startBlink(), which open() calls; cursorBlink is on by default
startBlink ==
  /\ ~destroyed
  /\ ~blink
  /\ blink' = TRUE
  /\ UNCHANGED <<position, destroyed, events, atReset, reentrant, emitter>>
  /\ UNCHANGED engineVars
  /\ UNCHANGED schedVars

\* the interval of startBlink fires and _cursorBlink() runs
cursorBlinkFires ==
  /\ blink
  /\ position = "idle"
  /\ term' = cursorBlink(Called(term))
  /\ UNCHANGED <<steps, last, before, entry, split, pending, whole>>
  /\ UNCHANGED schedVars
  /\ UNCHANGED apiVars

\* focus() called by the embedder
Focus ==
  /\ ~destroyed
  /\ position = "idle"
  /\ steps < MaxSteps
  /\ term' = focus(Called(term))
  /\ steps' = steps + 1
  /\ last' = <<>>
  /\ before' = term
  /\ UNCHANGED <<entry, split, pending, whole>>
  /\ UNCHANGED schedVars
  /\ UNCHANGED apiVars

\* the timer of send() fires: handler(queue), which emits 'data' unless
\* destroy() has replaced it, and the queue is emptied
sendTimerFires ==
  /\ term.sendTimers > 0
  /\ position = "idle"
  /\ term' = [(IF destroyed THEN Called(term)
               ELSE emit(Called(term), "data", <<term.queue>>))
                EXCEPT !.queue = <<>>, !.sendTimers = @ - 1]
  /\ UNCHANGED <<steps, last, before, entry, split, pending, whole>>
  /\ UNCHANGED schedVars
  /\ UNCHANGED apiVars

\* destroy()
destroy ==
  /\ position \in {"idle", "chunk"}
  /\ IF processWriteChunkTimer # -1
     THEN processWriteChunkTimer' = -1 /\ pendingProcess' = pendingProcess - 1
     ELSE UNCHANGED <<processWriteChunkTimer, pendingProcess>>
  /\ pendingRefresh' = IF refreshTimer # -1 THEN <<>> ELSE pendingRefresh
  /\ events' = {}
  /\ emitter' = [emitter EXCEPT !.listeners = <<>>]
  /\ destroyed' = TRUE
  /\ UNCHANGED <<writeBuffers, refreshTimer, written, parsed>>
  /\ UNCHANGED <<position, blink, atReset, reentrant>>
  /\ UNCHANGED engineVars

\* write(data) after destroy(): the empty function
writeDestroyed ==
  /\ destroyed
  /\ UNCHANGED vars

\* the strings written in this specification hold one character more than
\* a chunk
DestroyLengths == {MAX_PROCESS_WRITE_SIZE + 1}
\* ESC [ ? 1004 h turns focus events on: focus() then sends a reply
DestroyData == {FocusOn}

NextDestroy ==
  \/ \E len \in DestroyLengths : ~destroyed /\ position = "idle" /\ write(len)
  \/ \E data \in DestroyData : ~destroyed /\ position = "idle" /\ Write(data)
  \/ processWriteChunkTimerFires
  \/ takeWriteChunk
  \/ \E outcome \in {"more", "late", "threw"} : writeChunkDone(outcome)
  \/ position = "idle" /\ refreshTimerFires
  \/ \E type \in EventTypes : on(type)
  \/ startBlink
  \/ cursorBlinkFires
  \/ Focus
  \/ sendTimerFires
  \/ destroy
  \/ writeDestroyed

SpecDestroy == Init /\ [][NextDestroy]_vars

\* C13: once destroy() has run the event loop holds no task of the
\* terminal (write-chunk timer, refresh timer, cursor-blink interval, timer
\* of send) and no listener is left.
C13_DestroyCancelsAll ==
  destroyed =>
    /\ pendingProcess = 0
    /\ pendingRefresh = <<>>
    /\ ~blink
    /\ term.sendTimers = 0
    /\ events = {}

(***************************************************************************)
(* Emissions: the replies of send() and the events of emit().              *)
(***************************************************************************)
\* a cursor position request followed by a title change, in one write
DsrThenTitle == DSR6 \o OscTitleBEL

EmitData == {TextA, LF, <<BEL>>, DSR6, OscTitleBEL, DsrThenTitle}

NextEmit ==
  \/ \E data \in EmitData : Write(data)
  \/ sendTimerFires

SpecEmit == Init /\ [][NextEmit]_vars

\* C16: emissions reach the subscribers at the point where they are
\* produced, in production order: when an operation returns no reply waits
\* to be delivered, and the reply to a request that precedes a title change
\* is delivered before the 'title' event.
C16_EmittedInOrder ==
  /\ term.queue = <<>>
  /\ (last = DsrThenTitle /\ before.state = STATE_NORMAL)
       => /\ Len(term.out) = 2
          /\ term.out[1][1] = "data"
          /\ term.out[2][1] = "title"

(***************************************************************************)
(* Application mode: ESC & params BEL, the payload, NUL.                   *)
(***************************************************************************)
\* the applicationModeCookie option: not given, or 'k'
Cookies == {Undef, Str(<<107>>)}

\* ESC & k BEL, ESC & x BEL and ESC & k ; v BEL
AppStartK == <<ESC, 38, 107, BEL>>
AppStartX == <<ESC, 38, 120, BEL>>
AppStartKV == <<ESC, 38, 107, 59, 118, BEL>>
NUL == <<0>>
\* a payload that holds a printable, ESC c and a line feed
Payload == <<97, ESC, 99, 10>>
\* a whole session: the start sequence, the payload and the end-mode
\* character
AppSession(p) == AppStartK \o p \o NUL

AppPieces == {AppStartK, AppStartX, AppStartKV, TextA, Payload, NUL}
AppSessions == {AppSession(<<>>), AppSession(TextA), AppSession(Payload)}

\* new Terminal(options) with the applicationModeCookie option
InitApp ==
  \E cookie \in Cookies :
    /\ term = [Fresh(Cols, Rows, Scrollback) EXCEPT !.applicationModeCookie = cookie]
    /\ before = [Fresh(Cols, Rows, Scrollback) EXCEPT !.applicationModeCookie = cookie]
    /\ whole = [Fresh(Cols, Rows, Scrollback) EXCEPT !.applicationModeCookie = cookie]
    /\ steps = 0
    /\ last = <<>>
    /\ entry = NoEntry
    /\ split = "none"
    /\ pending = <<>>
    /\ writeBuffers = <<>>
    /\ processWriteChunkTimer = -1
    /\ refreshTimer = -1
    /\ pendingProcess = 0
    /\ pendingRefresh = <<>>
    /\ written = <<>>
    /\ parsed = <<>>
    /\ position = "idle"
    /\ destroyed = FALSE
    /\ blink = FALSE
    /\ events = {}
    /\ emitter = NoEmitter
    /\ atReset = [bufs |-> <<>>, parsed |-> 0]
    /\ reentrant = 0

NextApp ==
  \/ \E data \in AppPieces \cup AppSessions : Write(data)
  \/ \E data \in AppSessions : \E k \in 1..(Len(data) - 1) : WriteFirstPart(data, k)
  \/ WriteRest

SpecApp == InitApp /\ [][NextApp]_vars

AppEventTypes == {"application-mode-start", "application-mode-data", "application-mode-end"}

\* the application-mode events among the emissions out, in order
AppEvents(out) == SelectSeq(out, LAMBDA e : e[1] \in AppEventTypes)

\* the protocol start, data*, end run over the events ev from inside
\* (inApp) or outside a session: where it ends, or "bad"
RECURSIVE AppProtocol(_, _)
AppProtocol(ev, inApp) ==
  IF ev = <<>> THEN (IF inApp THEN "in" ELSE "out")
  ELSE CASE Head(ev)[1] = "application-mode-start" ->
              IF inApp THEN "bad" ELSE AppProtocol(Tail(ev), TRUE)
         [] Head(ev)[1] = "application-mode-data" ->
              IF inApp THEN AppProtocol(Tail(ev), TRUE) ELSE "bad"
         [] Head(ev)[1] = "application-mode-end" ->
              IF inApp THEN AppProtocol(Tail(ev), FALSE) ELSE "bad"

\* C18: the application-mode events of an operation follow start, data*,
\* end from where the operation found the parser (inside a session exactly
\* when the state is ApplicationEnd), and `application-mode-start` carries
\* the configured cookie as params[0]; without a cookie, or with another
\* one, no such event is emitted.
C18_AppProtocol ==
  /\ AppProtocol(AppEvents(term.out), before.state = STATE_APPLICATION_END)
       = (IF term.state = STATE_APPLICATION_END THEN "in" ELSE "out")
  /\ \A k \in 1..Len(term.out) :
       term.out[k][1] = "application-mode-start"
         => /\ term.applicationModeCookie # Undef
            /\ term.out[k][2][1] = term.applicationModeCookie.str

\* a start sequence with the configured cookie started a session, and one
\* with another cookie was dropped
C18_SessionStarted ==
  /\ last = AppStartK /\ term.state = STATE_APPLICATION_END
  /\ term.out = <<<<"application-mode-start", <<<<107>>>>>>>>
  /\ before.state = STATE_NORMAL

\* the payloads of the `application-mode-data` events of out, concatenated
RECURSIVE PayloadOf(_)
PayloadOf(out) ==
  IF out = <<>> THEN <<>>
  ELSE (IF Head(out)[1] = "application-mode-data" THEN Head(out)[2][1] ELSE <<>>)
         \o PayloadOf(Tail(out))

\* a whole session was written to a parser in the Normal state of a
\* terminal that has the cookie, in one write or in two
SessionWritten ==
  /\ last \in AppSessions
  /\ split \in {"none", "joined"}
  /\ before.state = STATE_NORMAL
  /\ before.applicationModeCookie = Str(<<107>>)

\* C19: the payloads of the `application-mode-data` events of a session,
\* concatenated, are the bytes between the BEL of the start sequence and
\* the NUL, however the session is cut in two writes; the session is ended
\* and the bytes have left the screen, the cursor and the modes alone.
C19_PayloadExact ==
  SessionWritten =>
    /\ PayloadOf(term.out) = SubSeq(last, Len(AppStartK) + 1, Len(last) - 1)
    /\ AppEvents(term.out)[Len(AppEvents(term.out))][1] = "application-mode-end"
    /\ term.state = STATE_NORMAL
    /\ SameScreen(term, before)

\* a session cut inside its payload: two data events carried it
C19_PayloadInTwoEvents ==
  /\ SessionWritten /\ split = "joined" /\ last = AppSession(Payload)
  /\ Len(AppEvents(term.out)) = 4

(***************************************************************************)
(* Wrap at the right margin.                                               *)
(***************************************************************************)
\* ESC [ ? 7 h (wraparound on), ESC [ 1 ; 1 r (the region is the top row),
\* ESC [ 2 ; 1 H (second row, first column), and `cols` printables
WrapOn == CSI(<<63, 55, 104>>)
RegionTop == CSI(<<49, 59, 49, 114>>)
SecondRow == CSI(<<50, 59, 49, 72>>)
Filler == Repeat(97, Cols)

WrapData == {WrapOn, WrapOn \o RegionTop, SecondRow, Filler, TextA, LF}

\* terminals of Rows and of Rows + 1 rows
InitWrap ==
  \E rows \in {Rows, Rows + 1} :
    /\ term = Fresh(Cols, rows, Scrollback)
    /\ before = Fresh(Cols, rows, Scrollback)
    /\ whole = Fresh(Cols, rows, Scrollback)
    /\ steps = 0
    /\ last = <<>>
    /\ entry = NoEntry
    /\ split = "none"
    /\ pending = <<>>
    /\ writeBuffers = <<>>
    /\ processWriteChunkTimer = -1
    /\ refreshTimer = -1
    /\ pendingProcess = 0
    /\ pendingRefresh = <<>>
    /\ written = <<>>
    /\ parsed = <<>>
    /\ position = "idle"
    /\ destroyed = FALSE
    /\ blink = FALSE
    /\ events = {}
    /\ emitter = NoEmitter
    /\ atReset = [bufs |-> <<>>, parsed |-> 0]
    /\ reentrant = 0

NextWrap == \E data \in WrapData : Write(data)

SpecWrap == InitWrap /\ [][NextWrap]_vars

\* the row of the screen (not of the buffer) that t shows at y
ScreenRow(t, y) == t.lines[t.ybase + y + 1]

\* the parser is in the Normal state of a sound terminal with wraparound on
WrapReady(t) == t.state = STATE_NORMAL /\ t.wraparoundMode /\ GeometryOk(t)

\* C20: `cols` printables written from column 0 leave x = cols on the same
\* row; a printable written with x = cols goes to column 0 of the next row
\* and leaves x = 1, and when the cursor was on scrollBottom the region
\* scrolls up by one row and y stays.
C20_DeferredWrap ==
  /\ (last = Filler /\ WrapReady(before) /\ before.x = 0)
       => (term.x = term.cols /\ term.y = before.y)
  /\ (last = TextA /\ WrapReady(before) /\ before.x = before.cols
        /\ (before.y = before.scrollBottom \/ before.y + 1 < before.rows))
       => /\ term.x = 1
          /\ IF before.y = before.scrollBottom
             THEN /\ term.y = before.y
                  /\ \A r \in before.scrollTop..(before.scrollBottom - 1) :
                       ScreenRow(term, r) = ScreenRow(before, r + 1)
             ELSE /\ term.y = before.y + 1
                  /\ term.ybase = before.ybase
                  /\ \A r \in 0..(before.rows - 1) :
                       r # term.y => ScreenRow(term, r) = ScreenRow(before, r)
          /\ ScreenRow(term, term.y)[1] = <<term.curAttr, 97>>

(***************************************************************************)
(* Save and restore of the cursor.                                         *)
(***************************************************************************)
\* ESC [ s and ESC [ u, save and restore cursor (ANSI.SYS)
CSIs == CSI(<<115>>)
CSIu == CSI(<<117>>)
\* ESC [ 1 ; 1 H, ESC [ A, ESC [ C, and '\r'
CUP11 == CSI(<<49, 59, 49, 72>>)
CUU == CSI(<<65>>)
CUF == CSI(<<67>>)
CR == <<13>>

\* the cursor movements made between the save and the restore
Moves == {CUP11, CUP22, LF \o CR, CUU \o CUF}

\* save, move, restore: with ESC 7 / ESC 8, with CSI s / CSI u, and mixed
SaveRestore == {<<DECSC, DECRC>>, <<CSIs, CSIu>>, <<DECSC, CSIu>>}
CursorSessions == {sr[1] \o mv \o sr[2] : sr \in SaveRestore, mv \in Moves}

CursorData == {CUP22, TextA, LF} \cup CursorSessions

NextCursor == \E data \in CursorData : Write(data)

SpecCursor == Init /\ [][NextCursor]_vars

\* C21: a save, cursor movements and a restore, parsed from the Normal
\* state, leave the cursor (x, y) where it was at the save.
C21_SaveRestoreRoundTrip ==
  (last \in CursorSessions /\ before.state = STATE_NORMAL)
    => (term.x = before.x /\ term.y = before.y)

\* a save at (1, 1), a move to (0, 0), and the restore
C21_RestoredAfterMove ==
  /\ last = DECSC \o CUP11 \o DECRC
  /\ before.state = STATE_NORMAL /\ before.x = 1 /\ before.y = 1
  /\ term.x = 1 /\ term.y = 1

(***************************************************************************)
(* Status reports.                                                         *)
(***************************************************************************)
\* ESC [ 5 n (DSR, status) and ESC [ ? 6 n (DECDSR, cursor position)
DSR5 == CSI(<<53, 110>>)
DECDSR == CSI(<<63, 54, 110>>)

StatusData == {DSR5, DSR6, DECDSR, CUP22, TextA, LF}

NextStatus == \E data \in StatusData : Write(data)

SpecStatus == Init /\ [][NextStatus]_vars

\* the reply ESC [ <prefix> <y+1> ; <x+1> R for the cursor of t
CursorReport(t, prefix) ==
  <<ESC, 91>> \o prefix \o Digits(t.y + 1) \o <<59>> \o Digits(t.x + 1) \o <<82>>

\* C22: a status request parsed from the Normal state sends exactly its
\* reply: ESC [ 0 n for CSI 5 n, ESC [ y+1 ; x+1 R for CSI 6 n and
\* ESC [ ? y+1 ; x+1 R for CSI ? 6 n, with the cursor of that moment.
C22_StatusReplies ==
  before.state = STATE_NORMAL
    => /\ last = DSR5 => term.queue = before.queue \o <<ESC, 91, 48, 110>>
       /\ last = DSR6 => term.queue = before.queue \o CursorReport(before, <<>>)
       /\ last = DECDSR => term.queue = before.queue \o CursorReport(before, <<63>>)

(***************************************************************************)
(* SGR with a trailing 0.                                                  *)
(***************************************************************************)
\* the longest parameter list written, before the trailing 0
MaxSgr == 3

\* bold, an unknown code, blink, red foreground, and the two extended
\* colour selectors
SgrCodes == {1, 2, 5, 31, 38, 48}

\* the parameter lists of up to MaxSgr codes, and two direct-colour
\* selectors with all their components
SgrLists ==
  UNION {[1..n -> SgrCodes] : n \in 0..MaxSgr}
    \cup {<<38, 2, 1, 2, 5>>, <<48, 2, 31, 31, 31>>}

\* Pm, the numbers of p in decimal with ';' between them
RECURSIVE SgrText(_)
SgrText(p) ==
  IF Len(p) = 0 THEN <<>>
  ELSE IF Len(p) = 1 THEN Digits(p[1])
  ELSE Digits(p[1]) \o <<59>> \o SgrText(Tail(p))

\* ESC [ Pm m
SgrSeq(p) == CSI(SgrText(p) \o <<109>>)

\* ESC [ Pm ; 0 m is written to the terminal as constructed, whose style
\* is the default
Sgr(p) == steps = 0 /\ Write(SgrSeq(Append(p, 0)))

NextSgr == \E p \in SgrLists : Sgr(p)

SpecSgr == Init /\ [][NextSgr]_vars

\* the parameter lists of the sequence last written
Written == {p \in SgrLists : last = SgrSeq(Append(p, 0))}

\* C23: from the default style, any parameter list followed by a
\* trailing 0 leaves the default style.
C23_TrailingZeroResets ==
  \A p \in Written : term.curAttr = term.defAttr

\* starting at index i, the loop of charAttributes reads the last
\* parameter of q as a code of its own, not as an argument of a selector
RECURSIVE LastIsCode(_, _)
LastIsCode(q, i) ==
  IF i = Len(q) - 1 THEN TRUE
  ELSE IF i >= Len(q) THEN FALSE
  ELSE LastIsCode(q, i + SgrWidth([k \in 1..Len(q) |-> Num(q[k])], i))

\* C23, amended: from the default style, a parameter list followed by a
\* trailing 0 leaves the default style whenever the 0 is not taken as an
\* argument (colour index or component) of a 38 or 48 selector before it.
C23_TrailingZeroResetsAsCode ==
  \A p \in Written : LastIsCode(Append(p, 0), 0) => term.curAttr = term.defAttr

\* an indexed colour with its index, and the trailing 0
C23_ResetAfterIndexedColour ==
  /\ last = SgrSeq(<<38, 5, 31, 0>>)
  /\ term.state = STATE_NORMAL
  /\ term.curAttr = term.defAttr

(***************************************************************************)
(* Tab stops.                                                              *)
(***************************************************************************)
\* the state after construction, for the terminal t
InitOf(t) ==
  /\ term = t
  /\ before = t
  /\ whole = t
  /\ steps = 0
  /\ last = <<>>
  /\ entry = NoEntry
  /\ split = "none"
  /\ pending = <<>>
  /\ writeBuffers = <<>>
  /\ processWriteChunkTimer = -1
  /\ refreshTimer = -1
  /\ pendingProcess = 0
  /\ pendingRefresh = <<>>
  /\ written = <<>>
  /\ parsed = <<>>
  /\ position = "idle"
  /\ destroyed = FALSE
  /\ blink = FALSE
  /\ events = {}
  /\ emitter = NoEmitter
  /\ atReset = [bufs |-> <<>>, parsed |-> 0]
  /\ reentrant = 0

\* ESC [ Z (CBT) and ESC [ g (TBC, clear the stop at the cursor)
CBT == CSI(<<90>>)
TBC == CSI(<<103>>)

TabData == {HTS, CBT, TBC, TextA, CUF, CR}

\* terminals of Cols and of Cols + 2 columns
InitTabs == \E cols \in {Cols, Cols + 2} : InitOf(Fresh(cols, Rows, Scrollback))

NextTabs == \E data \in TabData : Write(data)

SpecTabs == InitTabs /\ [][NextTabs]_vars

\* x0 is a tab stop of t left of the cursor with no stop in between
StopBefore(t, x0) ==
  /\ x0 \in t.tabs
  /\ x0 < t.x
  /\ \A c \in (x0 + 1)..(t.x - 1) : c \notin t.tabs

\* C24: CSI Z parsed in the Normal state with the cursor on a column x1
\* (or on the deferred-wrap position x1 = cols) takes the cursor to the
\* stop x0 < x1 that has no other stop between it and x1.
C24_BackTabToStop ==
  (last = CBT /\ before.state = STATE_NORMAL /\ CursorOk(before))
    => \A x0 \in 0..before.cols : StopBefore(before, x0) => term.x = x0

\* CSI Z returned the cursor to a stop that only ESC H can have set
C24_BackToSetStop ==
  /\ last = CBT
  /\ before.state = STATE_NORMAL
  /\ \E x0 \in 1..(before.cols - 1) : StopBefore(before, x0) /\ term.x = x0

(***************************************************************************)
(* Mouse reports.  pressed is _pressed; upListeners and moveListeners      *)
(* count the 'mouseup' and 'mousemove' listeners bound to the document.    *)
(* A position is <<>> (null: the event hit no row) or <<x, y>>, column     *)
(* and row plus 32.                                                        *)
(***************************************************************************)
\* encodeMouseData(buffer, ch): the bytes pushed
encodeMouseData(t, ch) ==
  IF ~t.utfMouse
  THEN IF ch = 255 THEN <<0>> ELSE IF ch > 127 THEN <<127>> ELSE <<ch>>
  ELSE (IF ch = 2047 THEN <<0>> ELSE <<>>)
         \o (IF ch < 127 THEN <<ch>>
             ELSE LET c == IF ch > 2047 THEN 2047 ELSE ch
                  IN <<192 + (c \div 64), 128 + (c % 64)>>)

\* the data sendMouseSequence(button, pos) sends (vt300Mouse and
\* decLocator are never set)
MouseData(t, button, pos) ==
  IF t.urxvtMouse
  THEN <<ESC, 91>> \o Digits(button) \o <<59>> \o Digits(pos[1] - 31) \o <<59>>
         \o Digits(pos[2] - 31) \o <<77>>
  ELSE IF t.sgrMouse
  THEN <<ESC, 91, 60>>
         \o Digits(IF button % 4 = 3 THEN button - 3 ELSE button) \o <<59>>
         \o Digits(pos[1] - 32) \o <<59>> \o Digits(pos[2] - 32)
         \o <<IF button % 4 = 3 THEN 109 ELSE 77>>
  ELSE <<ESC, 91, 77>> \o encodeMouseData(t, button) \o encodeMouseData(t, pos[1])
         \o encodeMouseData(t, pos[2])

sendMouseButtonSequence(t, pos, button) ==
  [send(t, MouseData(t, button, pos)) EXCEPT !.pressed = IF button = 3 THEN 32 ELSE button]

\* getMouseButtonFromEvent(ev) for a mousedown or mouseup event: button is
\* ev.button or 3, mods is shift (4) | meta (8) | ctrl (16)
getMouseButtonFromEvent(t, button, mods) ==
  LET mod == IF t.vt200Mouse THEN ((mods \div 16) % 2) * 16
             ELSE IF ~t.normalMouse THEN 0 ELSE mods
  IN (32 + mod * 4) + button

\* the 'mousedown' listener of bindMouse
mousedown(t, button, mods, pos) ==
  IF ~t.mouseEvents THEN t
  ELSE LET Rest(f) ==
             IF f.threw THEN f
             ELSE IF f.vt200Mouse
             THEN IF pos # <<>> THEN sendMouseButtonSequence(f, pos, 3) ELSE f
             ELSE [f EXCEPT !.moveListeners = IF f.normalMouse THEN @ + 1 ELSE @,
                            !.upListeners = IF ~f.x10Mouse THEN @ + 1 ELSE @]
       IN Rest(focus(IF pos # <<>>
                     THEN sendMouseButtonSequence(
                            t, pos, getMouseButtonFromEvent(t, button, mods))
                     ELSE t))

\* one `up` listener bound by the 'mousedown' listener
mouseupListener(t, mods, pos) ==
  LET s == IF pos # <<>>
           THEN sendMouseButtonSequence(t, pos, getMouseButtonFromEvent(t, 3, mods))
           ELSE t
  IN [s EXCEPT !.moveListeners = IF s.normalMouse /\ @ > 0 THEN @ - 1 ELSE @,
               !.upListeners = @ - 1]

\* a 'mouseup' event on the document: every listener bound at that moment
\* runs
mouseup(t, mods, pos) ==
  LET F[k \in 0..t.upListeners] ==
        IF k = 0 THEN t ELSE mouseupListener(F[k - 1], mods, pos)
  IN F[t.upListeners]

\* the marks of the mouse events in `last`
DownMark(button, mods, pos) == <<-1, button, mods>> \o pos
UpMark(mods, pos) == <<-2, mods>> \o pos

Buttons == {0, 2}
Modifiers == {0, 4, 16}
Positions == {<<>>, <<32 + 1, 32 + 1>>, <<32 + Cols, 32 + Rows>>}

\* a button goes down over the terminal
MouseDown(button, mods, pos) ==
  /\ steps < MaxSteps
  /\ term' = mousedown(Called(term), button, mods, pos)
  /\ steps' = steps + 1
  /\ last' = DownMark(button, mods, pos)
  /\ before' = term
  /\ UNCHANGED <<entry, split, pending, whole>>
  /\ UNCHANGED schedVars
  /\ UNCHANGED apiVars

\* a button goes up
MouseUp(mods, pos) ==
  /\ steps < MaxSteps
  /\ term' = mouseup(Called(term), mods, pos)
  /\ steps' = steps + 1
  /\ last' = UpMark(mods, pos)
  /\ before' = term
  /\ UNCHANGED <<entry, split, pending, whole>>
  /\ UNCHANGED schedVars
  /\ UNCHANGED apiVars

\* ESC [ ? 9 h (X10 mouse) and ESC [ ? 1002 h (button-event mouse)
X10On == CSI(<<63, 57, 104>>)
ButtonEventOn == CSI(<<63, 49, 48, 48, 50, 104>>)

MouseModes == {X10On, MouseOn, ButtonEventOn, FocusOn}

NextMouse ==
  \/ \E data \in MouseModes : Write(data)
  \/ \E button \in Buttons, mods \in Modifiers, pos \in Positions :
       MouseDown(button, mods, pos)
  \/ \E mods \in Modifiers, pos \in Positions : MouseUp(mods, pos)

SpecMouse == Init /\ [][NextMouse]_vars

\* the last event was a button press over a row, with reporting on
Pressed == Len(last) = 5 /\ last[1] = -1 /\ before.mouseEvents
\* what the last operation added to the send queue
Sent == SubSeq(term.queue, Len(before.queue) + 1, Len(term.queue))
\* the report of the press
PressReport ==
  MouseData(before, getMouseButtonFromEvent(before, last[2], last[3]), <<last[4], last[5]>>)
\* the reports of a release at the position of the press: the two low
\* bits of the button code are set
ReleaseReports ==
  {MouseData(before, b, <<last[4], last[5]>>) : b \in {c \in 0..127 : c % 4 = 3}}

\* C25: a press in X10 mode sends the press report and no release report,
\* neither at once nor on the later mouse-up (no mouseup listener is
\* bound); a press in VT200 mode sends the press report, then one
\* release report and nothing else, and binds no mouseup listener.
C25_ReleaseProtocol ==
  /\ (Pressed /\ before.x10Mouse)
       => /\ Sent \in {PressReport, PressReport \o <<ESC, 91, 73>>}
          /\ term.upListeners = before.upListeners
  /\ (Pressed /\ before.vt200Mouse)
       => /\ \E r \in ReleaseReports : Sent = PressReport \o r
          /\ term.upListeners = before.upListeners

(***************************************************************************)
(* The byte after ESC.                                                     *)
(***************************************************************************)
\* the bytes after ESC that open a sub-language: [ ] P & _ ^ # and the
\* charset designators ( ) * + - . /
Openers == {91, 93, 80, 38, 95, 94, 35, 40, 41, 42, 43, 45, 46, 47}

\* the bytes written after ESC: c, N, O, n, o, |, }, ~, 7, 8, H, =, >, E,
\* D, M, %, A (not assigned), [, P, ^, ( and #
Finals == {99, 78, 79, 110, 111, 124, 125, 126, 55, 56, 72, 61, 62, 69, 68, 77, 37,
           65, 91, 80, 94, 40, 35}

EscapeData == {<<ESC, f>> : f \in Finals} \cup {TextA}

NextEscape == \E data \in EscapeData : Write(data)

SpecEscape == Init /\ [][NextEscape]_vars

\* C26: ESC and a byte that opens no sub-language, parsed from the Normal
\* state, leave the parser in the Normal state.
C26_EscapeEndsNormal ==
  (Len(last) = 2 /\ last[1] = ESC /\ last[2] \notin Openers
     /\ before.state = STATE_NORMAL)
    => term.state = STATE_NORMAL

(***************************************************************************)
(* The write queue is always emptied.                                      *)
(***************************************************************************)
\* the event loop runs every timer that is due and a task that has begun
\* runs to its end
SpecTasksFair ==
  /\ SpecTasks
  /\ WF_vars(processWriteChunkTimerFires)
  /\ WF_vars(takeWriteChunk)
  /\ WF_vars(\E outcome \in {"more", "late", "threw"} : writeChunkDone(outcome))

\* the number of characters of the w-th write among the first k chunks
\* handed to _processWriteData
RECURSIVE ParsedOf(_, _)
ParsedOf(w, k) ==
  IF k = 0 THEN 0
  ELSE ParsedOf(w, k - 1) + (IF parsed[k].w = w THEN StrLen(parsed[k]) ELSE 0)

\* every character of the w-th write has been handed to the parser
Handed(w) == w <= Len(written) /\ ParsedOf(w, Len(parsed)) = written[w]

\* C27: between two tasks of the event loop a write-chunk timer is pending
\* whenever the write queue is not empty, and every write is eventually
\* handed to the parser in full.
C27_NoLostWakeUp ==
  /\ []((position = "idle" /\ writeBuffers # <<>>) => pendingProcess > 0)
  /\ \A w \in 1..MaxWrites : (Len(written) >= w) ~> Handed(w)

\* a task has ended with strings left in the queue, and its timer is set
C27_TimerSetWithQueue ==
  /\ position = "idle"
  /\ writeBuffers # <<>>
  /\ Len(parsed) > 0
  /\ pendingProcess = 1

(***************************************************************************)
(* SM and RM with a list of codes.                                         *)
(***************************************************************************)
\* the sequences written: the prefix ('?' or none) and the codes
ModeLists == {<<<<63>>, <<1, 6>>>>, <<<<63>>, <<1049, 1>>>>, <<<<63>>, <<1, 1049>>>>,
              <<<<63>>, <<1049, 4>>>>, <<<<>>, <<4, 20>>>>}

\* 'h' (SM) and 'l' (RM)
ModeFinals == {104, 108}

\* ESC [ prefix Pm final with the codes in one list
ModeList(m, final) == CSI(m[1] \o SgrText(m[2]) \o <<final>>)

\* one sequence ESC [ prefix Ps final for each code, in list order
RECURSIVE ModeEach(_, _, _)
ModeEach(prefix, codes, final) ==
  IF codes = <<>> THEN <<>>
  ELSE CSI(prefix \o Digits(codes[1]) \o <<final>>) \o ModeEach(prefix, Tail(codes), final)

ModeData == {ModeList(m, final) : m \in ModeLists, final \in ModeFinals}

NextModes == \E data \in ModeData : Write(data)

SpecModes == Init /\ [][NextModes]_vars

\* the state of t but for the parameters of the last sequence, which the
\* next ESC [ discards
AfterSequence(t) == [EngineState(t) EXCEPT !.params = <<>>]

\* C28: SM / RM with a list of codes, parsed from the Normal state, leaves
\* the terminal as the same codes sent one sequence each, with the same
\* prefix and in list order, leave it.
C28_ListAsSingles ==
  \A m \in ModeLists, final \in ModeFinals :
    (last = ModeList(m, final) /\ before.state = STATE_NORMAL)
      => AfterSequence(term)
           = AfterSequence(processWriteData(Called(before), ModeEach(m[1], m[2], final)))

(***************************************************************************)
(* The buffer holds the scrollback and one viewport.                       *)
(***************************************************************************)
\* C29: with physical scroll off, after every write and every resize
\* lines.length = ybase + rows, so every row ybase + y of the viewport
\* exists.
C29_BufferIsScrollbackPlusView ==
  ~term.physicalScroll => Len(term.lines) = term.ybase + term.rows

(***************************************************************************)
(* Scroll-up into the scrollback.                                          *)
(***************************************************************************)
\* ESC [ 1 ; 2 r, the scroll region of the first two rows
RegionTwo == CSI(<<49, 59, 50, 114>>)

ScrollData == {TextA, LF, CUP22, RegionTop, RegionTwo, DL}

\* terminals of Rows and of Rows + 1 rows, without and with scrollback
InitScroll ==
  \E rows \in {Rows, Rows + 1}, scrollback \in {0, Scrollback} :
    InitOf(Fresh(Cols, rows, scrollback))

NextScroll == \E data \in ScrollData : Write(data)

SpecScroll == InitScroll /\ [][NextScroll]_vars

\* the last write was a line feed on the bottom row of a scroll region that
\* starts at row 0, on a buffer of scrollback plus one viewport
ScrolledUp ==
  /\ last = LF
  /\ before.state = STATE_NORMAL
  /\ ~before.physicalScroll
  /\ before.scrollTop = 0
  /\ before.y = before.scrollBottom
  /\ RegionOk(before)
  /\ ViewOk(before)
  /\ Len(before.lines) = before.ybase + before.rows

RegionLow == CSI(<<50, 59, 50, 114>>)

RegionData == {TextA, LF, LF \o LF, CUP22, RegionLow}

NextRegion == \E data \in RegionData : Write(data)

SpecRegion == InitScroll /\ [][NextRegion]_vars

\* the last write was a line feed on the bottom row of a scroll region that
\* starts below row 0, on a buffer of scrollback plus one viewport
ScrolledRegion ==
  /\ last = LF
  /\ before.state = STATE_NORMAL
  /\ ~before.physicalScroll
  /\ before.scrollTop > 0
  /\ before.y = before.scrollBottom
  /\ RegionOk(before)
  /\ ViewOk(before)
  /\ Len(before.lines) = before.ybase + before.rows

\* C31: a scroll-up in a region with 0 < scrollTop <= scrollBottom < rows
\* leaves ybase, every scrollback row and the viewport rows outside the region
\* unchanged, also when the scrollback is full
C31_RegionScrollFrame ==
  ScrolledRegion =>
    /\ term.ybase = before.ybase
    /\ SubSeq(term.lines, 1, before.ybase) = SubSeq(before.lines, 1, before.ybase)
    /\ \A r \in (0..(before.scrollTop - 1)) \cup ((before.scrollBottom + 1)..(before.rows - 1)) :
         /\ before.ybase + r + 1 <= Len(term.lines)
         /\ term.lines[before.ybase + r + 1] = before.lines[before.ybase + r + 1]

(***************************************************************************)
(* The scroll region across the alternate screen.                          *)
(***************************************************************************)
AltRegionData == {RegionTop, RegionLow, TextA, LF} \cup EnterAlt \cup LeaveAlt

NextAltRegion == \E data \in AltRegionData : Write(data)

SpecAltRegion == Init /\ [][NextAltRegion]_vars

\* C32: after entering the alternate screen and leaving it, scrollTop and
\* scrollBottom have the values they had at entry.
C32_LeaveRestoresRegion ==
  entry.left => /\ term.scrollTop = entry.scrollTop
                /\ term.scrollBottom = entry.scrollBottom

(***************************************************************************)
(* Style and charsets across the entry into the alternate screen.          *)
(***************************************************************************)
\* ESC [ 1 m and ESC [ 31 m; ESC ( 0 designates the line-drawing set as G0,
\* ESC ) 0 as G1, SO invokes G1
Bold == SgrSeq(<<1>>)
Red == SgrSeq(<<31>>)
G0Graphics == <<ESC, 40, 48>>
G1Graphics == <<ESC, 41, 48>>
SO == <<14>>

StyleData == {Bold, Red, G0Graphics, G1Graphics, SO, TextA} \cup EnterAlt

NextStyle == \E data \in StyleData : Write(data)

SpecStyle == Init /\ [][NextStyle]_vars

\* the last write was an enter sequence, parsed from the Normal state
EnteredAlt == last \in EnterAlt /\ before.state = STATE_NORMAL

\* the charset banks, the active charset and glevel are those of before
SameCharsets ==
  /\ term.charsets = before.charsets
  /\ term.charset = before.charset
  /\ term.glevel = before.glevel

\* C33: entering the alternate screen with CSI ?47h, ?1047h or ?1049h leaves
\* curAttr, the charset banks G0..G3, the active charset and glevel as they
\* were immediately before.
C33_EnterKeepsStyle ==
  EnteredAlt => (term.curAttr = before.curAttr /\ SameCharsets)

(***************************************************************************)
(* Wraparound mode and the printable on the margin.                        *)
(***************************************************************************)
\* ESC [ ? 7 l
WrapOff == CSI(<<63, 55, 108>>)

AutoWrapData == {WrapOn, WrapOff, TextA, TextAA, LF}

NextAutoWrap == \E data \in AutoWrapData : Write(data)

SpecAutoWrap == Init /\ [][NextAutoWrap]_vars

\* the last write was one printable, received with the cursor on the margin
OnMargin ==
  /\ last = TextA
  /\ before.state = STATE_NORMAL
  /\ before.x = before.cols
  /\ RegionOk(before)
  /\ Len(before.lines) = before.ybase + before.rows

\* the cursor stayed on its row and nothing scrolled: ybase, the number of
\* rows and every row but the cursor's are those of before
StayedOnRow ==
  /\ term.y = before.y
  /\ term.ybase = before.ybase
  /\ Len(term.lines) = Len(before.lines)
  /\ \A j \in 1..Len(before.lines) :
       j # before.ybase + before.y + 1 => term.lines[j] = before.lines[j]

\* C34: a printable received with the cursor on the margin (x = cols) wraps
\* to the start of the next row, scrolling at the bottom of the region, if and
\* only if wraparound mode (?7) is set; with the mode reset, as after
\* CSI ?7l and in the initial state, the cursor stays on its row and nothing
\* scrolls.
C34_WrapOnlyInWraparound ==
  OnMargin => IF before.wraparoundMode
              THEN term.x = 1 /\ ~StayedOnRow
              ELSE StayedOnRow

(***************************************************************************)
(* Origin mode and cursor positioning.                                     *)
(***************************************************************************)
\* ESC [ ? 6 h and ESC [ ? 6 l
OriginOn == CSI(<<63, 54, 104>>)
OriginOff == CSI(<<63, 54, 108>>)

\* the row and column parameters of the CUP sequences written
Places == {<<1, 1>>, <<2, 2>>, <<9, 9>>}

\* ESC [ r ; c H
CUP(place) == CSI(Digits(place[1]) \o <<59>> \o Digits(place[2]) \o <<72>>)

OriginData == {OriginOn, OriginOff, RegionLow, RegionTop, TextA} \cup {CUP(p) : p \in Places}

NextOrigin == \E data \in OriginData : Write(data)

SpecOrigin == Init /\ [][NextOrigin]_vars

\* v brought into lo..hi
Clamped(v, lo, hi) == IF v < lo THEN lo ELSE IF v > hi THEN hi ELSE v

\* the cursor of term is where CUP(place) puts it when rows count from row
\* `top` and the cursor is kept within top..bottom
PlacedWithin(place, top, bottom) ==
  /\ term.y = Clamped(top + place[1] - 1, top, bottom)
  /\ term.x = Clamped(place[2] - 1, 0, before.cols - 1)

\* C35: with origin mode (?6) set, CUP r ; c puts the cursor on viewport row
\* scrollTop + r - 1 kept within scrollTop..scrollBottom; with origin mode
\* reset, on row r - 1 kept within the viewport.
C35_OriginMode ==
  \A place \in Places :
    (last = CUP(place) /\ before.state = STATE_NORMAL /\ RegionOk(before)) =>
      IF before.originMode
      THEN PlacedWithin(place, before.scrollTop, before.scrollBottom)
      ELSE PlacedWithin(place, 0, before.rows - 1)

(***************************************************************************)
(* Replies queued by send() and their delivery.                            *)
(***************************************************************************)
\* a status request followed by a full reset, and by the switch to the
\* alternate screen, in one write
DsrThenRis == DSR5 \o RIS
DsrThenAlt == DSR5 \o ALT1049h

ReplyData == {DSR5, DSR6, RIS, ALT1049h, DsrThenRis, DsrThenAlt, TextA}

NextReplies ==
  \/ \E data \in ReplyData : Write(data)
  \/ sendTimerFires

SpecReplies == Init /\ [][NextReplies]_vars

\* q is an initial part of r
StartsWith(r, q) == Len(q) <= Len(r) /\ SubSeq(r, 1, Len(q)) = q

\* C36: every reply handed to send() is delivered to the `data` subscribers
\* exactly once and in the order of production, and no `data` emission is
\* empty, whatever follows the request in the stream: a step that is not a
\* delivery keeps the queued replies and only appends to them, and a delivery
\* emits the whole non-empty queue once and empties it.
C36_RepliesDelivered ==
  [][IF term'.sendTimers < term.sendTimers
     THEN /\ term.queue # <<>>
          /\ term'.out = << <<"data", <<term.queue>>>> >>
          /\ term'.queue = <<>>
     ELSE StartsWith(term'.queue, term.queue)]_vars

(***************************************************************************)
(* The event emitter: listeners that change the list during an emit.       *)
(***************************************************************************)
MaxListeners == 3

\* what a listener does when called: nothing, removeListener(type, itself),
\* removeAllListeners(type), or on(type, a further listener)
Behaviours == {"plain", "removeSelf", "removeAll", "on"}

Listeners == [id : 1..MaxListeners, does : Behaviours]

\* the listener that an "on" listener registers
Added == [id |-> 0, does |-> "plain"]

\* addListener: _events[type].push(listener)
addListener(ls, l) == Append(ls, l)

\* removeListener: the last entry that is the listener is spliced out
removeListener(ls, l) ==
  LET at == {i \in 1..Len(ls) : ls[i] = l}
  IN IF at = {} THEN ls
     ELSE LET i == CHOOSE i \in at : \A j \in at : j <= i
          IN SubSeq(ls, 1, i - 1) \o SubSeq(ls, i + 1, Len(ls))

\* the call of listener k during an emit whose array is obj; cur is
\* _events[type]: the array obj itself (same) or, after a delete, another one
CallListener(k, obj, cur) ==
  LET Change(f(_)) == IF cur.same THEN [obj |-> f(obj), cur |-> cur]
                      ELSE [obj |-> obj, cur |-> [cur EXCEPT !.arr = f(@)]]
      Remove(a) == removeListener(a, k)
      Add(a) == addListener(a, Added)
      Same(a) == a
  IN CASE k.does = "removeSelf" -> Change(Remove)
       [] k.does = "removeAll" -> [obj |-> obj, cur |-> [same |-> FALSE, arr |-> <<>>]]
       [] k.does = "on" -> Change(Add)
       [] OTHER -> Change(Same)

\* for (; i < l; i++) obj[i].apply(this, args): obj[i] is undefined, and the
\* call throws, when the array has become shorter than l
RECURSIVE emitLoop(_, _, _, _, _)
emitLoop(obj, cur, i, l, calls) ==
  IF i >= l \/ i >= Len(obj)
  THEN [listeners |-> IF cur.same THEN obj ELSE cur.arr,
        calls |-> calls, threw |-> i < l]
  ELSE LET c == CallListener(obj[i + 1], obj, cur)
       IN emitLoop(c.obj, c.cur, i + 1, l, Append(calls, obj[i + 1].id))

\* on(type, l) for the type whose listeners are followed one by one
AddListener(l) ==
  /\ ~destroyed
  /\ Len(emitter.listeners) < MaxListeners
  /\ \A i \in 1..Len(emitter.listeners) : emitter.listeners[i].id # l.id
  /\ emitter' = [emitter EXCEPT !.listeners = addListener(@, l), !.emitted = FALSE]
  /\ UNCHANGED <<position, destroyed, blink, events, atReset, reentrant>>
  /\ UNCHANGED engineVars
  /\ UNCHANGED schedVars

\* emit(type) with at least one and at most MaxListeners listeners registered
EmitType ==
  /\ ~destroyed
  /\ emitter.listeners # <<>>
  /\ Len(emitter.listeners) <= MaxListeners
  /\ LET r == emitLoop(emitter.listeners, [same |-> TRUE, arr |-> <<>>], 0,
                       Len(emitter.listeners), <<>>)
     IN emitter' = [listeners |-> r.listeners, began |-> emitter.listeners,
                    calls |-> r.calls, threw |-> r.threw, emitted |-> TRUE]
  /\ UNCHANGED <<position, destroyed, blink, events, atReset, reentrant>>
  /\ UNCHANGED engineVars
  /\ UNCHANGED schedVars

NextEmitter ==
  \/ \E l \in Listeners : AddListener(l)
  \/ EmitType

SpecEmitter == Init /\ [][NextEmitter]_vars

\* C37: an emit calls every listener registered when it began exactly once,
\* in registration order, and completes without error, also when a listener
\* calls removeListener, removeAllListeners or on for the type during it.
C37_EmitCallsAllOnce ==
  emitter.emitted =>
    /\ ~emitter.threw
    /\ emitter.calls = [i \in 1..Len(emitter.began) |-> emitter.began[i].id]

(***************************************************************************)
(* DECRQSS.                                                                *)
(***************************************************************************)
\* ESC P $ q Pt ESC \
DECRQSS(pt) == <<ESC, 80, 36, 113>> \o pt \o <<ESC, 92>>

\* the requests "p, "q, r and m
KnownRequests == {<<34, 112>>, <<34, 113>>, <<114>>, <<109>>}

\* the requests written: the known ones, x, "r and the empty one
Requests == KnownRequests \cup {<<120>>, <<34, 114>>, <<>>}

RequestData == {DECRQSS(pt) : pt \in Requests} \cup {RegionTop, RegionLow, TextA}

NextRequest == \E data \in RequestData : Write(data)

SpecRequest == Init /\ [][NextRequest]_vars

\* the status string of the claim for a known request
StatusString(t, pt) ==
  CASE pt = <<34, 112>> -> <<54, 49, 34, 112>>
    [] pt = <<34, 113>> -> <<48, 34, 113>>
    [] pt = <<114>> -> Digits(t.scrollTop + 1) \o <<59>> \o Digits(t.scrollBottom + 1) \o <<114>>
    [] pt = <<109>> -> <<48, 109>>

\* C38: DECRQSS for "p, "q, r and m is answered with ESC P 1 $ r, the
\* status string 61"p, 0"q, <scrollTop+1>;<scrollBottom+1>r or 0m, and
\* ESC \; for any other Pt the reply is ESC P 0 $ r ESC \.
C38_RequestStatusReply ==
  \A pt \in Requests :
    (last = DECRQSS(pt) /\ before.state = STATE_NORMAL) =>
      term.queue = before.queue \o
        (IF pt \in KnownRequests
         THEN <<ESC, 80, 49, 36, 114>> \o StatusString(before, pt) \o <<ESC, 92>>
         ELSE <<ESC, 80, 48, 36, 114, ESC, 92>>)

(***************************************************************************)
(* The style of erased cells.                                              *)
(***************************************************************************)
\* 'a' for every cell of the viewport
ScreenFill == Repeat(97, Cols * Rows)

\* ESC [ 41 m, and ESC [ 1 ; 31 ; 41 m: bold, red on red
RedBackground == SgrSeq(<<41>>)
BoldRedOnRed == SgrSeq(<<1, 31, 41>>)

\* ED, EL, ECH, ICH, IL with their default parameter, and ED 2
ED == CSI(<<74>>)
ED2 == CSI(<<50, 74>>)
EL == CSI(<<75>>)
ECH == CSI(<<88>>)
ICH == CSI(<<64>>)
IL == CSI(<<76>>)

EraseOps == {ED, ED2, EL, EL1, ECH, ICH, DCH, IL, DL}

EraseData == {ScreenFill, CUP11, Red, RedBackground, BoldRedOnRed} \cup EraseOps

NextErase == \E data \in EraseData : Write(data)

SpecErase == Init /\ [][NextErase]_vars

\* the cells of the viewport of t
ViewCells(t) ==
  UNION {{t.lines[t.ybase + r][c] : c \in 1..Len(t.lines[t.ybase + r])} : r \in 1..t.rows}

\* the last write was an erase operation on a viewport without a blank cell
ErasedFull ==
  /\ last \in EraseOps
  /\ before.state = STATE_NORMAL
  /\ RowsOk(before)
  /\ Len(before.lines) = before.ybase + before.rows
  /\ \A cell \in ViewCells(before) : cell[2] # 32

\* every blank cell of the viewport of term has the style attr
BlanksHave(attr) ==
  /\ Len(term.lines) >= term.ybase + term.rows
  /\ \A cell \in ViewCells(term) : cell[2] = 32 => cell[1] = attr

\* the 9 bits of the foreground and of the background of a style
Foreground(attr) == (attr \div 512) % 512
Background(attr) == attr % 512

\* C39: the cells blanked by ED, EL, ECH, ICH, DCH, IL and DL have the
\* default background combined with the current foreground, flags cleared,
\* for every current style.
C39_EraseStyle ==
  ErasedFull =>
    BlanksHave(Foreground(before.curAttr) * 512 + Background(before.defAttr))

\* C39, amended: the cells blanked by ED, EL, ECH, ICH, DCH, IL and DL have
\* the default foreground combined with the current background, flags
\* cleared, for every current style.
C39_EraseStyleBackground ==
  ErasedFull =>
    BlanksHave(Foreground(before.defAttr) * 512 + Background(before.curAttr))

\* a line was deleted under a bold style whose colours are both not the
\* default ones, which left blank cells
C39_ErasedInColour ==
  /\ ErasedFull
  /\ last = DL
  /\ before.curAttr \div (512 * 512) # 0
  /\ Foreground(before.curAttr) # Foreground(before.defAttr)
  /\ Background(before.curAttr) # Background(before.defAttr)
  /\ \E cell \in ViewCells(term) : cell[2] = 32

(***************************************************************************)
(* The arrow keys.                                                         *)
(***************************************************************************)
\* keyCode 38 (up-arrow) and 40 (down-arrow): the final byte of the key
\* string and the direction of the scroll
ArrowKeys == {38, 40}
ArrowFinal(keyCode) == IF keyCode = 38 THEN 65 ELSE 66
ArrowDisp(keyCode) == IF keyCode = 38 THEN -1 ELSE 1

\* keyDown(ev) for an arrow key: the cases 38 and 40 of the switch, and the
\* emissions after it
keyDown(t, keyCode, ctrlKey, shiftKey) ==
  IF ~t.applicationCursor /\ ctrlKey /\ shiftKey
  THEN scrollDisp(t, ArrowDisp(keyCode))
  ELSE LET key == IF t.applicationCursor THEN <<ESC, 79, ArrowFinal(keyCode)>>
                  ELSE IF ctrlKey THEN <<ESC, 91, 49, 59, 53, ArrowFinal(keyCode)>>
                  ELSE <<ESC, 91, ArrowFinal(keyCode)>>
           e == emit(emit(t, "keydown", <<>>), "key", <<key>>)
       IN emit(showCursor(e), "data", <<key>>)

\* the mark of a key event in `last`
KeyMark(keyCode, ctrlKey, shiftKey) ==
  <<-3, keyCode, IF ctrlKey THEN 1 ELSE 0, IF shiftKey THEN 1 ELSE 0>>

\* an arrow key goes down
KeyDown(keyCode, ctrlKey, shiftKey) ==
  /\ steps < MaxSteps
  /\ term' = keyDown(Called(term), keyCode, ctrlKey, shiftKey)
  /\ steps' = steps + 1
  /\ last' = KeyMark(keyCode, ctrlKey, shiftKey)
  /\ before' = term
  /\ UNCHANGED <<entry, split, pending, whole>>
  /\ UNCHANGED schedVars
  /\ UNCHANGED apiVars

\* ESC [ ? 1 h (application cursor keys)
ApplicationCursorOn == CSI(<<63, 49, 104>>)

KeyData == {ApplicationCursorOn, LF, TextA}

NextKeys ==
  \/ \E data \in KeyData : Write(data)
  \/ \E keyCode \in ArrowKeys, ctrlKey \in BOOLEAN, shiftKey \in BOOLEAN :
       KeyDown(keyCode, ctrlKey, shiftKey)

SpecKeys == Init /\ [][NextKeys]_vars

\* C40: Ctrl+Shift+Up and Ctrl+Shift+Down move the view by -1 and +1 row,
\* within 0..ybase, and emit no `data`, whether or not application-cursor
\* mode (?1) is set.
C40_CtrlShiftArrowScrolls ==
  \A keyCode \in ArrowKeys :
    last = KeyMark(keyCode, TRUE, TRUE) =>
      /\ term.ydisp = Clamped(before.ydisp + ArrowDisp(keyCode), 0, before.ybase)
      /\ \A k \in 1..Len(term.out) : term.out[k][1] # "data"

====
